---- MODULE Spec2Model ----
(***************************************************************************)
(* Model of pcflib/betteryao/GarbledCct3.cpp: the garbling engine of a     *)
(* Yao garbled-circuit protocol (free-XOR, garbled row reduction,         *)
(* point-and-permute), its running circuit hash and the generator-input   *)
(* commitments.                                                           *)
(*                                                                         *)
(* One generator engine (gen_init/gen_next_gate or com_init/com_next_gate) *)
(* and one evaluator engine (evl_init/evl_next_gate) walk the same circuit.*)
(* The build modelled is the one that compiles: GRR defined (without GRR   *)
(* evl_next_gate names garbled_ix outside its scope, lines 399 and 450).   *)
(* FREE_XOR and RAND_SEED are chosen per behaviour.                        *)
(*                                                                         *)
(* Scaling.  A __m128i word is WordBytes bytes of ByteBits bits, a label   *)
(* has KBits meaningful bits (Env::k()) and travels as KeyBytes bytes      *)
(* (Env::key_size_in_bytes()).  Words and byte strings are little-endian.  *)
(***************************************************************************)
EXTENDS Integers, Sequences, FiniteSets, TLC

\* ------------------------------------------------------------------ bounds
ByteBits == 2
KBits == 3
WordBytes == 3
NumSeeds == 2
MaxRows == 1
MaxBatch == 2
HashBufferSize == 5
MaxCut == 1

KeyBytes == (KBits + ByteBits - 1) \div ByteBits
ByteMod == 2 ^ ByteBits
KMod == 2 ^ KBits
WordMod == 2 ^ (ByteBits * WordBytes)

\* ------------------------------------------------- 128-bit word arithmetic
RECURSIVE XorN(_, _)
XorN(a, b) ==
    IF a = 0 THEN b
    ELSE IF b = 0 THEN a
    ELSE ((a + b) % 2) + 2 * XorN(a \div 2, b \div 2)

\* _mm_xor_si128
_mm_xor_si128(a, b) == XorN(a, b)

RECURSIVE AndN(_, _)
AndN(a, b) ==
    IF a = 0 \/ b = 0 THEN 0
    ELSE ((a % 2) * (b % 2)) + 2 * AndN(a \div 2, b \div 2)

\* _mm_and_si128
_mm_and_si128(a, b) == AndN(a, b)

\* _mm_extract_epi8(x, 0) & 0x01 : the permutation bit of a label
LowBit(x) == (x % ByteMod) % 2

\* _mm_set1_epi64x(v): both 64-bit halves of the word hold v
_mm_set1_epi64x(v) == <<v, v>>

\* ------------------------------------------------------------ byte strings
\* _mm_loadu_si128 of a byte string resized to 16 bytes with zero fill
\* (tmp.resize(16, 0) then load): little-endian value of the first WordBytes.
RECURSIVE LoadFrom(_, _)
LoadFrom(bytes, i) ==
    IF i > Len(bytes) \/ i > WordBytes THEN 0
    ELSE bytes[i] + ByteMod * LoadFrom(bytes, i + 1)

Load(bytes) == LoadFrom(bytes, 1)

\* _mm_storeu_si128 into tmp then tmp.begin() .. tmp.begin()+n
Store(word, n) == [i \in 1..n |-> (word \div (ByteMod ^ (i - 1))) % ByteMod]

\* Bytes(it, it+n) / tmp.assign(it, it+n): n bytes from 0-based offset off
Slice(bytes, off, n) == SubSeq(bytes, off + 1, off + n)

\* Bytes::get_ith_bit on a bit string held as a sequence of bits
get_ith_bit(bits, ix) == bits[ix + 1]

\* Bytes::set_ith_bit on a byte string
set_ith_bit(bytes, ix, bit) ==
    LET p == (ix \div ByteBits) + 1
        w == 2 ^ (ix % ByteBits)
        old == (bytes[p] \div w) % 2
    IN  [bytes EXCEPT ![p] = bytes[p] - old * w + (bit % 2) * w]

\* bit ix of a byte string
ByteBit(bytes, ix) == (bytes[(ix \div ByteBits) + 1] \div (2 ^ (ix % ByteBits))) % 2

\* Bytes operator^= : bytewise XOR of equal-length strings
XorBytes(a, b) == [i \in 1..Len(a) |-> XorN(a[i], b[i])]

ZeroBytes(n) == [i \in 1..n |-> 0]

\* ------------------------------------------------- external collaborators
\* Prng::rand(Env::k()): the n-th draw of the generator seeded with seed, KBits
\* pseudo-random bits held in KeyBytes bytes (returned here as the word value).
Rand(seed, n) ==
    ((seed + 2) * (seed + 2) * 5 + (n + 1) * (n + seed + 3) * 3 + (n \div 2) + 1) % KMod

\* KDF128(plaintext, ciphertext, key): tweakable PRF keyed by one label.
KDF128(tweak, key) ==
    ((2 * key + 1) * (6 * tweak[1] + 5) * 11 + 3 * tweak[2] + 7 * (key \div 2)) % WordMod

\* KDF256(plaintext, ciphertext, key): tweakable PRF keyed by two labels.
KDF256(tweak, key0, key1) ==
    ((2 * key0 + 1) * (2 * key1 + 3) * (4 * tweak[1] + 7) + 5 * tweak[2]
        + 3 * key0 + 13 * (key1 \div 2)) % WordMod

\* Injective code of a byte string of a given length.
RECURSIVE Encode(_, _)
Encode(bytes, i) ==
    IF i > Len(bytes) THEN 0 ELSE bytes[i] + ByteMod * Encode(bytes, i + 1)

\* Bytes::hash(Env::k()): a KeyBytes-long digest.  The hash is collision
\* resistant; it is modelled as injective on strings of one length: digest
\* byte j is a symbolic cell (a value above every plain byte) naming the
\* preimage and j.
Hash(bytes) ==
    [j \in 1..KeyBytes |-> ByteMod + KeyBytes * Encode(bytes, 1) + (j - 1)]

\* ---------------------------------------------------------------- circuits
\* Gate: m_tag, m_idx (wire written), m_table (m_table[ix] is the output for
\* input index ix = (y<<1)|x; held 1-based), m_input_idx (wires read).
Gate(tag, idx, table, inputs) ==
    [m_tag |-> tag, m_idx |-> idx, m_table |-> table, m_input_idx |-> inputs]

GenInp(idx) == Gate("GEN_INP", idx, <<>>, <<>>)
EvlInp(idx) == Gate("EVL_INP", idx, <<>>, <<>>)

T_AND == <<0, 0, 0, 1>>
T_XOR == <<0, 1, 1, 0>>
T_OR == <<0, 1, 1, 1>>
T_NAND == <<1, 1, 1, 0>>
T_XNOTY == <<0, 1, 0, 0>>
T_IMP == <<1, 0, 1, 1>>
T_ID == <<0, 1>>
T_NOT == <<1, 0>>

Circuits ==
    << \* AND of two generator inputs
       << GenInp(0), GenInp(1), Gate("EVL_OUT", 2, T_AND, <<0, 1>>) >>,
       \* XOR of a generator and an evaluator input
       << GenInp(0), EvlInp(1), Gate("EVL_OUT", 2, T_XOR, <<0, 1>>) >>,
       \* chain of three ANDs
       << GenInp(0), GenInp(1), EvlInp(2),
          Gate("ETC", 3, T_AND, <<0, 1>>),
          Gate("ETC", 4, T_AND, <<3, 2>>),
          Gate("EVL_OUT", 5, T_AND, <<4, 1>>) >>,
       \* asymmetric table, 1-input gates, both output kinds
       << GenInp(0), EvlInp(1),
          Gate("ETC", 2, T_XNOTY, <<0, 1>>),
          Gate("GEN_OUT", 3, T_NOT, <<2>>),
          Gate("EVL_OUT", 4, T_ID, <<1>>) >>,
       \* untagged XOR feeding garbled gates
       << GenInp(0), GenInp(1), EvlInp(2),
          Gate("ETC", 3, T_XOR, <<0, 2>>),
          Gate("GEN_OUT", 4, T_OR, <<3, 1>>),
          Gate("EVL_OUT", 5, T_IMP, <<4, 3>>) >>,
       \* evaluator input first, tagged XOR, untagged 1-input gates
       << EvlInp(0), GenInp(1),
          Gate("ETC", 2, T_NOT, <<0>>),
          Gate("GEN_OUT", 3, T_XOR, <<2, 1>>),
          Gate("ETC", 4, T_ID, <<3>>),
          Gate("EVL_OUT", 5, T_NAND, <<4, 0>>) >>
    >>

\* the 2-input table whose entry ix is bit ix of i
TableOf(i) == [ix \in 1..4 |-> (i \div (2 ^ (ix - 1))) % 2]

T_MAJ == <<0, 0, 0, 1, 0, 1, 1, 1>>

\* Circuits a caller may also hand to the engines: one gate of each of the
\* sixteen 2-input tables over a generator and an evaluator input, a circuit
\* with two outputs of each kind, and a circuit whose last gate has three
\* inputs.
FedCircuits ==
    [i \in 1..(2 ^ 4) |->
        << GenInp(0), EvlInp(1), Gate("EVL_OUT", 2, TableOf(i - 1), <<0, 1>>) >>]
    \o << << GenInp(0), EvlInp(1),
             Gate("EVL_OUT", 2, T_AND, <<0, 1>>),
             Gate("GEN_OUT", 3, T_OR, <<0, 1>>),
             Gate("EVL_OUT", 4, T_XOR, <<0, 1>>),
             Gate("GEN_OUT", 5, T_NOT, <<2>>) >>,
          << GenInp(0), EvlInp(1), GenInp(2), Gate("EVL_OUT", 3, T_MAJ, <<0, 1, 2>>) >> >>

AllCircuits == Circuits \o FedCircuits

RECURSIVE CountTag(_, _, _)
CountTag(c, tag, n) ==
    IF n = 0 THEN 0
    ELSE CountTag(c, tag, n - 1) + (IF c[n].m_tag = tag THEN 1 ELSE 0)

\* Env::circuit().gen_inp_cnt() etc.; m_cnt is the number of gates (wires)
gen_inp_cnt(c) == CountTag(c, "GEN_INP", Len(c))
evl_inp_cnt(c) == CountTag(c, "EVL_INP", Len(c))
gen_out_cnt(c) == CountTag(c, "GEN_OUT", Len(c))
evl_out_cnt(c) == CountTag(c, "EVL_OUT", Len(c))

\* is_xor(gate): the gate computes the XOR of its inputs (table 0110, or the
\* 1-input gate that passes its input through).
is_xor(g) ==
    \/ Len(g.m_input_idx) = 2 /\ g.m_table = T_XOR
    \/ Len(g.m_input_idx) = 1 /\ g.m_table = T_ID

\* The plain circuit: the Boolean value of every wire 0..n-1 after the first
\* n gates, on generator input gi and evaluator input ei (bit sequences).
RECURSIVE PlainVals(_, _, _, _)
PlainVals(c, gi, ei, n) ==
    IF n = 0 THEN <<>>
    ELSE LET prev == PlainVals(c, gi, ei, n - 1)
             g == c[n]
             v == IF g.m_tag = "GEN_INP" THEN gi[CountTag(c, "GEN_INP", n)]
                  ELSE IF g.m_tag = "EVL_INP" THEN ei[CountTag(c, "EVL_INP", n)]
                  ELSE IF Len(g.m_input_idx) = 2
                       THEN g.m_table[2 * prev[g.m_input_idx[2] + 1]
                                      + prev[g.m_input_idx[1] + 1] + 1]
                       ELSE g.m_table[prev[g.m_input_idx[1] + 1] + 1]
         IN  Append(prev, v)

BitSeqs(n) == [1..n -> {0, 1}]

\* ------------------------------------------------------------ engine state
VARIABLES
    env,      \* Env and the parties' inputs: circuit, build options, gen_in, evl_in, OT keys
    gen,      \* the generator's GarbledCct3 object
    evl,      \* the evaluator's GarbledCct3 object
    net,      \* transport between the engines and the record of what was emitted
    pass_chk  \* last value returned by pass_check ("none" before a call)

vars == <<env, gen, evl, net, pass_chk>>

Unset == -1

Cct == AllCircuits[env.cct]
NumGates == Len(Cct)

\* init() lines 20-22: m_clear_mask has exactly the low Env::k() bits set
ClearMask == KMod - 1

\* The OT key pairs of the OT subsystem: key 2i+b is the b-side key of
\* evaluator input i, KeyBytes bytes each.
OtKeys(cnt) ==
    [j \in 1..(2 * cnt) |->
        Store((7 + j * j * 3 + j) % (ByteMod ^ KeyBytes), KeyBytes)]

\* --------------------------------------------------------------- RunningHash
\* update_hash: append to the spill buffer; under RAND_SEED absorb and clear
\* it once it is larger than CIRCUIT_HASH_BUFFER_SIZE.
CIRCUIT_HASH_BUFFER_SIZE == HashBufferSize

\* update_hash that absorbs the spill buffer without clearing it
Mut_update_hash(e, data, rand_seed) ==
    LET b == e.m_bufr \o data
    IN  IF rand_seed /\ Len(b) > CIRCUIT_HASH_BUFFER_SIZE
        THEN [e EXCEPT !.m_hash = @ \o b, !.m_bufr = b]
        ELSE [e EXCEPT !.m_bufr = b]

update_hash(e, data, rand_seed) ==
    LET b == e.m_bufr \o data
    IN  IF rand_seed /\ Len(b) > CIRCUIT_HASH_BUFFER_SIZE
        THEN [e EXCEPT !.m_hash = @ \o b, !.m_bufr = <<>>]
        ELSE [e EXCEPT !.m_bufr = b]

\* every byte folded so far, in order: absorbed bytes then the spill buffer
Folded(e) == e.m_hash \o e.m_bufr

\* ---------------------------------------------------------- generator kernels
\* Each kernel yields the zero key of the gate's wire (key), the bytes it
\* appends to m_o_bufr (out), the number of PRNG draws (draws) and the
\* decommitment table (decom).

\* gen_GEN_INP that lays the decommitments out by label, not by masked bit
Mut_gen_GEN_INP(g) ==
    LET seed == g.m_prng.seed
        n == g.m_prng.n
        current_zero_key == Rand(seed, n)
        a == <<current_zero_key, _mm_xor_si128(current_zero_key, g.m_R)>>
        bit == get_ith_bit(g.m_gen_inp_mask, g.m_gen_inp_ix)
        d0 == Store(a[1], KeyBytes) \o Store(Rand(seed, n + 1), KeyBytes)
        d1 == Store(a[2], KeyBytes) \o Store(Rand(seed, n + 2), KeyBytes)
    IN  [key |-> current_zero_key,
         out |-> Hash(d0) \o Hash(d1),
         draws |-> 3,
         decom |-> [g.m_gen_inp_decom EXCEPT ![2 * g.m_gen_inp_ix + 0 + 1] = d0,
                                             ![2 * g.m_gen_inp_ix + 1 + 1] = d1]]

\* lines 91-118
gen_GEN_INP(g) ==
    LET seed == g.m_prng.seed
        n == g.m_prng.n
        current_zero_key == Rand(seed, n)
        a == <<current_zero_key, _mm_xor_si128(current_zero_key, g.m_R)>>
        bit == get_ith_bit(g.m_gen_inp_mask, g.m_gen_inp_ix)
        d0 == Store(a[bit + 1], KeyBytes) \o Store(Rand(seed, n + 1), KeyBytes)
        d1 == Store(a[(1 - bit) + 1], KeyBytes) \o Store(Rand(seed, n + 2), KeyBytes)
    IN  [key |-> current_zero_key,
         out |-> Hash(d0) \o Hash(d1),
         draws |-> 3,
         decom |-> [g.m_gen_inp_decom EXCEPT ![2 * g.m_gen_inp_ix + 0 + 1] = d0,
                                             ![2 * g.m_gen_inp_ix + 1 + 1] = d1]]

\* lines 119-153
gen_EVL_INP(g) ==
    LET current_zero_key == Rand(g.m_prng.seed, g.m_prng.n)
        a0 == _mm_xor_si128(Load(g.m_ot_keys[2 * g.m_evl_inp_ix + 0 + 1]), current_zero_key)
        a1 == _mm_xor_si128(Load(g.m_ot_keys[2 * g.m_evl_inp_ix + 1 + 1]),
                            _mm_xor_si128(current_zero_key, g.m_R))
    IN  [key |-> current_zero_key,
         out |-> Store(a0, KeyBytes) \o Store(a1, KeyBytes),
         draws |-> 1,
         decom |-> g.m_gen_inp_decom]

\* lines 160-164 (FREE_XOR)
gen_free_xor(g, gate) ==
    LET inputs == gate.m_input_idx
    IN  [key |-> IF Len(inputs) = 2
                 THEN _mm_xor_si128(g.m_w[inputs[1]], g.m_w[inputs[2]])
                 ELSE g.m_w[inputs[1]],
         out |-> <<>>,
         draws |-> 0,
         decom |-> g.m_gen_inp_decom]

\* gen_gate2 whose tweak holds the gate index in its low half only
Mut_gen_gate2(g, gate) ==
    LET inputs == gate.m_input_idx
        aes_plaintext == <<g.m_gate_ix, 0>>
        X0 == g.m_w[inputs[1]]
        Y0 == g.m_w[inputs[2]]
        X == <<X0, _mm_xor_si128(X0, g.m_R)>>
        Y == <<Y0, _mm_xor_si128(Y0, g.m_R)>>
        perm_x == LowBit(X0)
        perm_y == LowBit(Y0)
        de_garbled_ix == 2 * perm_y + perm_x
        \* 0-th entry : (X[x], Y[y])
        k00 == X[perm_x + 1]
        k01 == Y[perm_y + 1]
        c0 == _mm_and_si128(KDF256(aes_plaintext, k00, k01), ClearMask)
        bit0 == gate.m_table[de_garbled_ix + 1]
        \* GRR: Z[bit] = ciphertext, Z[1-bit] = Z[bit] ^ R
        Z == [b \in {0, 1} |-> IF b = bit0 THEN c0 ELSE _mm_xor_si128(c0, g.m_R)]
        \* 1st entry : (X[1-x], Y[y])
        k10 == _mm_xor_si128(k00, g.m_R)
        c1 == _mm_and_si128(KDF256(aes_plaintext, k10, k01), ClearMask)
        bit1 == gate.m_table[XorN(1, de_garbled_ix) + 1]
        \* 2nd entry : (X[x], Y[1-y])
        k20 == _mm_xor_si128(k10, g.m_R)
        k21 == _mm_xor_si128(k01, g.m_R)
        c2 == _mm_and_si128(KDF256(aes_plaintext, k20, k21), ClearMask)
        bit2 == gate.m_table[XorN(2, de_garbled_ix) + 1]
        \* 3rd entry : (X[1-x], Y[1-y])
        k30 == _mm_xor_si128(k20, g.m_R)
        c3 == _mm_and_si128(KDF256(aes_plaintext, k30, k21), ClearMask)
        bit3 == gate.m_table[XorN(3, de_garbled_ix) + 1]
    IN  [key |-> Z[0],
         out |-> Store(_mm_xor_si128(c1, Z[bit1]), KeyBytes)
                 \o Store(_mm_xor_si128(c2, Z[bit2]), KeyBytes)
                 \o Store(_mm_xor_si128(c3, Z[bit3]), KeyBytes),
         draws |-> 0,
         decom |-> g.m_gen_inp_decom]

\* lines 167-240 with GRR: 2-arity gates
gen_gate2(g, gate) ==
    LET inputs == gate.m_input_idx
        aes_plaintext == _mm_set1_epi64x(g.m_gate_ix)
        X0 == g.m_w[inputs[1]]
        Y0 == g.m_w[inputs[2]]
        X == <<X0, _mm_xor_si128(X0, g.m_R)>>
        Y == <<Y0, _mm_xor_si128(Y0, g.m_R)>>
        perm_x == LowBit(X0)
        perm_y == LowBit(Y0)
        de_garbled_ix == 2 * perm_y + perm_x
        \* 0-th entry : (X[x], Y[y])
        k00 == X[perm_x + 1]
        k01 == Y[perm_y + 1]
        c0 == _mm_and_si128(KDF256(aes_plaintext, k00, k01), ClearMask)
        bit0 == gate.m_table[de_garbled_ix + 1]
        \* GRR: Z[bit] = ciphertext, Z[1-bit] = Z[bit] ^ R
        Z == [b \in {0, 1} |-> IF b = bit0 THEN c0 ELSE _mm_xor_si128(c0, g.m_R)]
        \* 1st entry : (X[1-x], Y[y])
        k10 == _mm_xor_si128(k00, g.m_R)
        c1 == _mm_and_si128(KDF256(aes_plaintext, k10, k01), ClearMask)
        bit1 == gate.m_table[XorN(1, de_garbled_ix) + 1]
        \* 2nd entry : (X[x], Y[1-y])
        k20 == _mm_xor_si128(k10, g.m_R)
        k21 == _mm_xor_si128(k01, g.m_R)
        c2 == _mm_and_si128(KDF256(aes_plaintext, k20, k21), ClearMask)
        bit2 == gate.m_table[XorN(2, de_garbled_ix) + 1]
        \* 3rd entry : (X[1-x], Y[1-y])
        k30 == _mm_xor_si128(k20, g.m_R)
        c3 == _mm_and_si128(KDF256(aes_plaintext, k30, k21), ClearMask)
        bit3 == gate.m_table[XorN(3, de_garbled_ix) + 1]
    IN  [key |-> Z[0],
         out |-> Store(_mm_xor_si128(c1, Z[bit1]), KeyBytes)
                 \o Store(_mm_xor_si128(c2, Z[bit2]), KeyBytes)
                 \o Store(_mm_xor_si128(c3, Z[bit3]), KeyBytes),
         draws |-> 0,
         decom |-> g.m_gen_inp_decom]

\* lines 241-287 with GRR: 1-arity gates
gen_gate1(g, gate) ==
    LET inputs == gate.m_input_idx
        aes_plaintext == _mm_set1_epi64x(g.m_gate_ix)
        X0 == g.m_w[inputs[1]]
        X == <<X0, _mm_xor_si128(X0, g.m_R)>>
        perm_x == LowBit(X0)
        \* 0-th entry : X[x]
        k0 == X[perm_x + 1]
        c0 == _mm_and_si128(KDF128(aes_plaintext, k0), ClearMask)
        bit0 == gate.m_table[perm_x + 1]
        Z == [b \in {0, 1} |-> IF b = bit0 THEN c0 ELSE _mm_xor_si128(c0, g.m_R)]
        \* 1-st entry : X[1-x]
        k1 == _mm_xor_si128(k0, g.m_R)
        c1 == _mm_and_si128(KDF128(aes_plaintext, k1), ClearMask)
        bit1 == gate.m_table[XorN(1, perm_x) + 1]
    IN  [key |-> Z[0],
         out |-> Store(_mm_xor_si128(c1, Z[bit1]), KeyBytes),
         draws |-> 0,
         decom |-> g.m_gen_inp_decom]

\* gen_out_tag that tags evaluator outputs only
Mut_gen_out_tag(gate, current_zero_key) ==
    IF gate.m_tag = "EVL_OUT" THEN <<LowBit(current_zero_key)>> ELSE <<>>

\* lines 289-296: the permutation bit of the zero key, one byte
gen_out_tag(gate, current_zero_key) ==
    IF gate.m_tag = "EVL_OUT" THEN <<LowBit(current_zero_key)>>
    ELSE IF gate.m_tag = "GEN_OUT" THEN <<LowBit(current_zero_key)>>
    ELSE <<>>

\* lines 154-297: a gate that is no input gate
gen_internal(g, gate, free_xor) ==
    LET r == IF free_xor /\ is_xor(gate) THEN gen_free_xor(g, gate)
             ELSE IF Len(gate.m_input_idx) = 2 THEN gen_gate2(g, gate)
             ELSE gen_gate1(g, gate)
    IN  [r EXCEPT !.out = @ \o gen_out_tag(gate, r.key)]

\* line 155: assert(inputs.size() == 1 || inputs.size() == 2), reached by the
\* gates that are no input gates
gen_assert_arity(gate) ==
    gate.m_tag \in {"GEN_INP", "EVL_INP"} \/ Len(gate.m_input_idx) \in {1, 2}

\* GarbledCct3::gen_next_gate, lines 87-302.  A failed assert ends the
\* process (state "aborted") unless the build defines NDEBUG, which compiles
\* the assert away.
gen_next_gate(g, gate, free_xor, ndebug) ==
    IF ~ndebug /\ ~gen_assert_arity(gate) THEN [g EXCEPT !.state = "aborted"] ELSE
    LET r == IF gate.m_tag = "GEN_INP" THEN gen_GEN_INP(g)
             ELSE IF gate.m_tag = "EVL_INP" THEN gen_EVL_INP(g)
             ELSE gen_internal(g, gate, free_xor)
    IN  [g EXCEPT !.m_w[gate.m_idx] = r.key,
                  !.m_o_bufr = @ \o r.out,
                  !.m_prng.n = @ + r.draws,
                  !.m_gen_inp_decom = r.decom,
                  !.m_gen_inp_ix = @ + (IF gate.m_tag = "GEN_INP" THEN 1 ELSE 0),
                  !.m_evl_inp_ix = @ + (IF gate.m_tag = "EVL_INP" THEN 1 ELSE 0),
                  !.m_gate_ix = @ + 1]

\* GarbledCct3::com_next_gate, lines 317-322
com_next_gate(g, gate, free_xor, rand_seed, ndebug) ==
    LET g1 == gen_next_gate(g, gate, free_xor, ndebug)
        g2 == update_hash(g1, g1.m_o_bufr, rand_seed)
    IN  IF g1.state = "aborted" THEN g1 ELSE [g2 EXCEPT !.m_o_bufr = <<>>]

\* ---------------------------------------------------------- evaluator kernels
\* Each kernel yields the active key of the gate's wire (key), the number of
\* bytes by which it advances m_i_bufr_ix (adv) and the commitment table (com).

\* evl_GEN_INP that stores the first of the two commitments whatever the
\* masked input bit
Mut_evl_GEN_INP(e) ==
    [key |-> Load(Slice(e.m_gen_inp_decom[e.m_gen_inp_ix + 1], 0, KeyBytes)),
     adv |-> KeyBytes * 2,
     com |-> [e.m_gen_inp_com EXCEPT ![e.m_gen_inp_ix + 1] =
                  Slice(e.m_i_bufr, e.m_i_bufr_ix, KeyBytes)]]

\* lines 340-354
evl_GEN_INP(e) ==
    LET bit == get_ith_bit(e.m_gen_inp_mask, e.m_gen_inp_ix)
        it == e.m_i_bufr_ix + bit * KeyBytes
    IN  [key |-> Load(Slice(e.m_gen_inp_decom[e.m_gen_inp_ix + 1], 0, KeyBytes)),
         adv |-> KeyBytes * 2,
         com |-> [e.m_gen_inp_com EXCEPT ![e.m_gen_inp_ix + 1] =
                      Slice(e.m_i_bufr, it, KeyBytes)]]

\* lines 355-372
evl_EVL_INP(e) ==
    LET bit == get_ith_bit(e.m_evl_inp, e.m_evl_inp_ix)
        it == e.m_i_bufr_ix + bit * KeyBytes
        a == Load(Slice(e.m_i_bufr, it, KeyBytes))
    IN  [key |-> _mm_xor_si128(Load(e.m_ot_keys[e.m_evl_inp_ix + 1]), a),
         adv |-> KeyBytes * 2,
         com |-> e.m_gen_inp_com]

\* evl_free_xor that takes the first input's label whatever the arity
Mut_evl_free_xor(e, gate) ==
    [key |-> e.m_w[gate.m_input_idx[1]], adv |-> 0, com |-> e.m_gen_inp_com]

\* lines 378-382 (FREE_XOR)
evl_free_xor(e, gate) ==
    LET inputs == gate.m_input_idx
    IN  [key |-> IF Len(inputs) = 2
                 THEN _mm_xor_si128(e.m_w[inputs[1]], e.m_w[inputs[2]])
                 ELSE e.m_w[inputs[1]],
         adv |-> 0,
         com |-> e.m_gen_inp_com]

\* garbled_ix with the two permutation bits exchanged
Mut_evl_garbled_ix(perm_x, perm_y) == 2 * perm_x + perm_y

\* line 399: the row of the garbled table the two permutation bits select
evl_garbled_ix(perm_x, perm_y) == 2 * perm_y + perm_x

\* evl_gate2 reading the garbled_ix-th ciphertext, as the build without GRR
\* does, from a stream that omits row 0
Mut_evl_gate2(e, gate) ==
    LET inputs == gate.m_input_idx
        aes_plaintext == _mm_set1_epi64x(e.m_gate_ix)
        k0 == e.m_w[inputs[1]]
        k1 == e.m_w[inputs[2]]
        aes_ciphertext == _mm_and_si128(KDF256(aes_plaintext, k0, k1), ClearMask)
        garbled_ix == evl_garbled_ix(LowBit(k0), LowBit(k1))
        it == e.m_i_bufr_ix + (IF garbled_ix = 3 THEN 2 ELSE garbled_ix) * KeyBytes
    IN  [key |-> _mm_xor_si128(aes_ciphertext, Load(Slice(e.m_i_bufr, it, KeyBytes))),
         adv |-> 3 * KeyBytes,
         com |-> e.m_gen_inp_com]

\* lines 385-424 with GRR: 2-arity gates
evl_gate2(e, gate) ==
    LET inputs == gate.m_input_idx
        aes_plaintext == _mm_set1_epi64x(e.m_gate_ix)
        k0 == e.m_w[inputs[1]]
        k1 == e.m_w[inputs[2]]
        perm_x == LowBit(k0)
        perm_y == LowBit(k1)
        aes_ciphertext == _mm_and_si128(KDF256(aes_plaintext, k0, k1), ClearMask)
        garbled_ix == evl_garbled_ix(perm_x, perm_y)
        it == e.m_i_bufr_ix + (garbled_ix - 1) * KeyBytes
    IN  [key |-> IF garbled_ix = 0 THEN aes_ciphertext
                 ELSE _mm_xor_si128(aes_ciphertext, Load(Slice(e.m_i_bufr, it, KeyBytes))),
         adv |-> 3 * KeyBytes,
         com |-> e.m_gen_inp_com]

\* evl_gate1 advancing the cursor by the two rows of the build without GRR
Mut_evl_gate1(e, gate) ==
    LET aes_key == e.m_w[gate.m_input_idx[1]]
        aes_ciphertext == _mm_and_si128(KDF128(_mm_set1_epi64x(e.m_gate_ix), aes_key),
                                        ClearMask)
    IN  [key |-> IF LowBit(aes_key) = 0 THEN aes_ciphertext
                 ELSE _mm_xor_si128(aes_ciphertext,
                                    Load(Slice(e.m_i_bufr, e.m_i_bufr_ix, KeyBytes))),
         adv |-> 2 * KeyBytes,
         com |-> e.m_gen_inp_com]

\* lines 425-458 with GRR: 1-arity gates
evl_gate1(e, gate) ==
    LET inputs == gate.m_input_idx
        aes_plaintext == _mm_set1_epi64x(e.m_gate_ix)
        aes_key == e.m_w[inputs[1]]
        aes_ciphertext == _mm_and_si128(KDF128(aes_plaintext, aes_key), ClearMask)
        perm_x == LowBit(aes_key)
    IN  [key |-> IF perm_x = 0 THEN aes_ciphertext
                 ELSE _mm_xor_si128(aes_ciphertext,
                                    Load(Slice(e.m_i_bufr, e.m_i_bufr_ix, KeyBytes))),
         adv |-> KeyBytes,
         com |-> e.m_gen_inp_com]

\* lines 373-458: a gate that is no input gate, before its output tag
evl_internal(e, gate, free_xor) ==
    IF free_xor /\ is_xor(gate) THEN evl_free_xor(e, gate)
    ELSE IF Len(gate.m_input_idx) = 2 THEN evl_gate2(e, gate)
    ELSE evl_gate1(e, gate)

\* evl_out_bit without the XOR of the tag byte
Mut_evl_out_bit(e, current_key, cursor) == LowBit(current_key)

\* lines 462-463, 472-473: the output bit read with the tag byte at the cursor
evl_out_bit(e, current_key, cursor) ==
    XorN(LowBit(current_key), e.m_i_bufr[cursor + 1])

\* evl_next_gate whose GEN_OUT branch advances m_evl_out_ix, as its EVL_OUT
\* branch does
Mut_evl_next_gate(e, gate, free_xor, rand_seed) ==
    LET r == IF gate.m_tag = "GEN_INP" THEN evl_GEN_INP(e)
             ELSE IF gate.m_tag = "EVL_INP" THEN evl_EVL_INP(e)
             ELSE evl_internal(e, gate, free_xor)
        cursor == e.m_i_bufr_ix + r.adv
        is_evl_out == gate.m_tag = "EVL_OUT"
        is_gen_out == gate.m_tag = "GEN_OUT"
        tagged == is_evl_out \/ is_gen_out
        e1 == [e EXCEPT
                 !.m_gen_inp_com = r.com,
                 !.m_gen_inp_ix = @ + (IF gate.m_tag = "GEN_INP" THEN 1 ELSE 0),
                 !.m_evl_inp_ix = @ + (IF gate.m_tag = "EVL_INP" THEN 1 ELSE 0),
                 !.m_evl_out = IF is_evl_out
                               THEN set_ith_bit(@, e.m_evl_out_ix, evl_out_bit(e, r.key, cursor))
                               ELSE @,
                 !.m_evl_out_ix = @ + (IF tagged THEN 1 ELSE 0),
                 !.m_gen_out = IF is_gen_out
                               THEN set_ith_bit(@, e.m_gen_out_ix, evl_out_bit(e, r.key, cursor))
                               ELSE @,
                 !.m_gen_out_ix = @,
                 !.m_i_bufr_ix = cursor + (IF tagged THEN 1 ELSE 0),
                 !.m_w[gate.m_idx] = r.key]
        e2 == update_hash(e1, e1.m_i_bufr, rand_seed)
    IN  [e2 EXCEPT !.m_gate_ix = @ + 1]

\* GarbledCct3::evl_next_gate, lines 334-485
evl_next_gate(e, gate, free_xor, rand_seed) ==
    LET r == IF gate.m_tag = "GEN_INP" THEN evl_GEN_INP(e)
             ELSE IF gate.m_tag = "EVL_INP" THEN evl_EVL_INP(e)
             ELSE evl_internal(e, gate, free_xor)
        cursor == e.m_i_bufr_ix + r.adv
        is_evl_out == gate.m_tag = "EVL_OUT"
        is_gen_out == gate.m_tag = "GEN_OUT"
        tagged == is_evl_out \/ is_gen_out
        e1 == [e EXCEPT
                 !.m_gen_inp_com = r.com,
                 !.m_gen_inp_ix = @ + (IF gate.m_tag = "GEN_INP" THEN 1 ELSE 0),
                 !.m_evl_inp_ix = @ + (IF gate.m_tag = "EVL_INP" THEN 1 ELSE 0),
                 !.m_evl_out = IF is_evl_out
                               THEN set_ith_bit(@, e.m_evl_out_ix, evl_out_bit(e, r.key, cursor))
                               ELSE @,
                 !.m_evl_out_ix = @ + (IF is_evl_out THEN 1 ELSE 0),
                 !.m_gen_out = IF is_gen_out
                               THEN set_ith_bit(@, e.m_gen_out_ix, evl_out_bit(e, r.key, cursor))
                               ELSE @,
                 !.m_gen_out_ix = @ + (IF is_gen_out THEN 1 ELSE 0),
                 !.m_i_bufr_ix = cursor + (IF tagged THEN 1 ELSE 0),
                 !.m_w[gate.m_idx] = r.key]
        e2 == update_hash(e1, e1.m_i_bufr, rand_seed)
    IN  [e2 EXCEPT !.m_gate_ix = @ + 1]

\* ------------------------------------------------------------- InputBinding
\* XOR of the strings decom[sel(jx)] over the jx < n with row bit jx set
RECURSIVE XorRow(_, _, _, _, _)
XorRow(decom, row, mask, two_sided, n) ==
    IF n = 0 THEN ZeroBytes(Len(decom[1]))
    ELSE LET jx == n - 1
             acc == XorRow(decom, row, mask, two_sided, n - 1)
             ix == IF two_sided THEN 2 * jx + get_ith_bit(mask, jx) ELSE jx
         IN  IF get_ith_bit(row, jx) = 1 THEN XorBytes(acc, decom[ix + 1]) ELSE acc

\* gen_next_gen_inp_com with the line 505 variant msg ^= m_gen_inp_decom[2*jx],
\* which ignores the mask
Mut_gen_next_gen_inp_com(g, row, kx, cnt) ==
    LET t == Rand(g.m_prng.seed, g.m_prng.n)
        out_key0 == t - (t % 2)
        out_key1 == _mm_xor_si128(out_key0, g.m_R)
        msg == XorRow(g.m_gen_inp_decom, row, [i \in 1..cnt |-> 0], TRUE, cnt)
        aes_plaintext == _mm_set1_epi64x(kx)
        in_key0 == Load(Slice(msg, 0, KeyBytes))
        in_key1 == _mm_xor_si128(in_key0, g.m_R)
        o0 == _mm_xor_si128(out_key0, _mm_and_si128(KDF128(aes_plaintext, in_key0), ClearMask))
        o1 == _mm_xor_si128(out_key1, _mm_and_si128(KDF128(aes_plaintext, in_key1), ClearMask))
        out_key == <<o0, o1>>
        bit == ByteBit(msg, 0)
    IN  [g EXCEPT !.m_o_bufr = @ \o Store(out_key[bit + 1], KeyBytes)
                                 \o Store(out_key[(1 - bit) + 1], KeyBytes),
                  !.m_prng.n = @ + 1,
                  !.m_gen_inp_hash_ix = @ + 1]

\* GarbledCct3::gen_next_gen_inp_com, lines 487-543
gen_next_gen_inp_com(g, row, kx, cnt) ==
    LET t == Rand(g.m_prng.seed, g.m_prng.n)
        out_key0 == t - (t % 2)
        out_key1 == _mm_xor_si128(out_key0, g.m_R)
        msg == XorRow(g.m_gen_inp_decom, row, g.m_gen_inp_mask, TRUE, cnt)
        aes_plaintext == _mm_set1_epi64x(kx)
        in_key0 == Load(Slice(msg, 0, KeyBytes))
        in_key1 == _mm_xor_si128(in_key0, g.m_R)
        o0 == _mm_xor_si128(out_key0, _mm_and_si128(KDF128(aes_plaintext, in_key0), ClearMask))
        o1 == _mm_xor_si128(out_key1, _mm_and_si128(KDF128(aes_plaintext, in_key1), ClearMask))
        out_key == <<o0, o1>>
        bit == ByteBit(msg, 0)
    IN  [g EXCEPT !.m_o_bufr = @ \o Store(out_key[bit + 1], KeyBytes)
                                 \o Store(out_key[(1 - bit) + 1], KeyBytes),
                  !.m_prng.n = @ + 1,
                  !.m_gen_inp_hash_ix = @ + 1]

\* evl_gen_inp_com_bit whose loop drops the row.get_ith_bit(jx) test and
\* XORs every decommitment
Mut_evl_gen_inp_com_bit(decom, i_bufr, cursor, row, kx, cnt) ==
    LET out == XorRow(decom, [i \in 1..cnt |-> 1], <<>>, FALSE, cnt)
        bit == ByteBit(out, 0)
        it == cursor + bit * KeyBytes
        aes_key == Load(Slice(out, 0, KeyBytes))
        aes_ciphertext == _mm_and_si128(KDF128(_mm_set1_epi64x(kx), aes_key), ClearMask)
        out_key == _mm_xor_si128(Load(Slice(i_bufr, it, KeyBytes)), aes_ciphertext)
    IN  LowBit(out_key)

\* lines 547-576: the bit evl_next_gen_inp_com writes at m_gen_inp_hash[kx]
evl_gen_inp_com_bit(decom, i_bufr, cursor, row, kx, cnt) ==
    LET out == XorRow(decom, row, <<>>, FALSE, cnt)
        bit == ByteBit(out, 0)
        it == cursor + bit * KeyBytes
        aes_key == Load(Slice(out, 0, KeyBytes))
        aes_ciphertext == _mm_and_si128(KDF128(_mm_set1_epi64x(kx), aes_key), ClearMask)
        out_key == _mm_xor_si128(Load(Slice(i_bufr, it, KeyBytes)), aes_ciphertext)
    IN  LowBit(out_key)

\* GarbledCct3::evl_next_gen_inp_com, lines 545-586
evl_next_gen_inp_com(e, row, kx, cnt) ==
    [e EXCEPT !.m_gen_inp_hash =
                  set_ith_bit(@, kx, evl_gen_inp_com_bit(e.m_gen_inp_decom, e.m_i_bufr,
                                                         e.m_i_bufr_ix, row, kx, cnt)),
              !.m_i_bufr_ix = @ + 2 * KeyBytes,
              !.m_gen_inp_hash_ix = @ + 1]

\* pass_check whose flag is assigned, not and-ed: the last index decides
Mut_pass_check(e, n) ==
    IF n = 0 THEN TRUE
    ELSE Hash(e.m_gen_inp_decom[n]) = e.m_gen_inp_com[n]

\* GarbledCct3::pass_check, lines 324-332: the loop over ix < n
RECURSIVE pass_check(_, _)
pass_check(e, n) ==
    IF n = 0 THEN TRUE
    ELSE pass_check(e, n - 1)
         /\ (Hash(e.m_gen_inp_decom[n]) = e.m_gen_inp_com[n])

\* ------------------------------------------------------------ initialisation
\* a GarbledCct3 object after construction (m_w is the null pointer)
Construct ==
    [state |-> "new",
     m_ot_keys |-> <<>>, m_gen_inp_mask |-> <<>>, m_evl_inp |-> <<>>,
     m_prng |-> [seed |-> 0, n |-> 0], m_R |-> 0, m_w |-> <<>>,
     m_gate_ix |-> 0, m_gen_inp_hash_ix |-> 0,
     m_gen_inp_ix |-> 0, m_evl_inp_ix |-> 0, m_gen_out_ix |-> 0, m_evl_out_ix |-> 0,
     m_o_bufr |-> <<>>, m_i_bufr |-> <<>>, m_i_bufr_ix |-> 0,
     m_gen_inp_hash |-> <<>>, m_gen_inp_decom |-> <<>>, m_gen_inp_com |-> <<>>,
     m_evl_out |-> <<>>, m_gen_out |-> <<>>,
     m_bufr |-> <<>>, m_hash |-> <<>>]

\* new __m128i[Env::circuit().m_cnt] when m_w == 0
AllocW(e, c) ==
    IF DOMAIN e.m_w = {} THEN [i \in 0..(Len(c) - 1) |-> Unset] ELSE e.m_w

\* resize(n) of a byte string or of a vector of byte strings: the first n
\* elements stay as they are, elements added are value-initialised (fill)
Resize(old, n, fill) == [i \in 1..n |-> IF i <= Len(old) THEN old[i] ELSE fill]

\* Bytes::resize((cnt+7)/8) of an output string
OutBytes(old, cnt) == Resize(old, (cnt + ByteBits - 1) \div ByteBits, 0)

\* init that leaves the gate index as it is
Mut_init(e) ==
    [e EXCEPT !.m_gen_inp_hash_ix = 0,
              !.m_gen_inp_ix = 0, !.m_evl_inp_ix = 0,
              !.m_gen_out_ix = 0, !.m_evl_out_ix = 0,
              !.m_o_bufr = <<>>, !.m_i_bufr = <<>>,
              !.m_gen_inp_hash = Resize(@, KeyBytes, 0)]

\* GarbledCct3::init, lines 4-23
init(e) ==
    [e EXCEPT !.m_gate_ix = 0, !.m_gen_inp_hash_ix = 0,
              !.m_gen_inp_ix = 0, !.m_evl_inp_ix = 0,
              !.m_gen_out_ix = 0, !.m_evl_out_ix = 0,
              !.m_o_bufr = <<>>, !.m_i_bufr = <<>>,
              !.m_gen_inp_hash = Resize(@, KeyBytes, 0)]

\* R taken as drawn, without tmp.set_ith_bit(0, 1)
Mut_gen_R(tmp) == tmp

\* lines 34-37: R is the drawn k-bit string with its 0-th bit set to 1
gen_R(tmp) == tmp + (1 - (tmp % 2))

\* GarbledCct3::gen_init, lines 25-47
gen_init(e, ot_keys, gen_inp_mask, seed, c) ==
    LET tmp == Rand(seed, 0)
        e1 == [e EXCEPT !.state = "gen",
                        !.m_ot_keys = ot_keys,
                        !.m_gen_inp_mask = gen_inp_mask,
                        !.m_prng = [seed |-> seed, n |-> 1],
                        \* R is a random k-bit string whose 0-th bit has to be 1
                        !.m_R = gen_R(tmp)]
        e2 == init(e1)
    IN  [e2 EXCEPT !.m_w = AllocW(e2, c),
                   !.m_gen_inp_decom = Resize(@, gen_inp_cnt(c) * 2, <<>>)]

\* GarbledCct3::com_init, lines 53-59
com_init(e, ot_keys, gen_inp_mask, seed, c) ==
    [gen_init(e, ot_keys, gen_inp_mask, seed, c) EXCEPT
        !.state = "com", !.m_bufr = <<>>, !.m_hash = <<>>]

\* GarbledCct3::evl_init, lines 62-84
evl_init(e, ot_keys, masked_gen_inp, evl_inp, c) ==
    LET e1 == init(e)
    IN  [e1 EXCEPT !.state = "evl",
                   !.m_ot_keys = ot_keys,
                   !.m_gen_inp_mask = masked_gen_inp,
                   !.m_evl_inp = evl_inp,
                   !.m_evl_out = OutBytes(@, evl_out_cnt(c)),
                   !.m_gen_out = OutBytes(@, gen_out_cnt(c)),
                   !.m_w = AllocW(e1, c),
                   !.m_bufr = <<>>, !.m_hash = <<>>,
                   !.m_gen_inp_com = Resize(@, gen_inp_cnt(c), <<>>),
                   !.m_gen_inp_decom = Resize(@, gen_inp_cnt(c), <<>>)]

\* ------------------------------------------------------- the protocol around
\* The orchestration is sequential: the generator garbles env.batch gates
\* (1..MaxBatch, fixed for the run), the transport hands their bytes to the
\* evaluator, the evaluator consumes them, and so on; the input-commitment
\* rows follow the gates, one transfer per row.

Steps(e) == e.m_gate_ix + e.m_gen_inp_hash_ix
CaughtUp == Steps(evl) = net.delivered
Pending == Steps(gen) - net.delivered

\* what the generator was told to mask its input with, seen by the evaluator
MaskedGenInp == [i \in 1..Len(env.gen_in) |-> (env.gen_in[i] + gen.m_gen_inp_mask[i]) % 2]

\* the OT outcome: the evaluator holds key 2i + evl_in[i] of every pair
EvlOtKeys == [i \in 1..Len(env.evl_in) |-> env.ot_keys[2 * (i - 1) + env.evl_in[i] + 1]]

\* the start (0-based) in net.emitted of the bytes of generator step n (1-based)
StepStart(n) == IF n = 1 THEN 0 ELSE net.ends[n - 1]

\* record what one generator step appended to m_o_bufr
Emit(before, after) ==
    LET bytes == SubSeq(after.m_o_bufr, Len(before.m_o_bufr) + 1, Len(after.m_o_bufr))
    IN  IF after.state = "aborted" THEN net
        ELSE [net EXCEPT !.emitted = @ \o bytes,
                         !.ends = Append(@, Len(net.emitted) + Len(bytes))]

Init ==
    \E c \in 1..Len(Circuits), fx \in BOOLEAN, rs \in BOOLEAN, b \in 1..MaxBatch :
      \E gi \in BitSeqs(gen_inp_cnt(Circuits[c])), ei \in BitSeqs(evl_inp_cnt(Circuits[c])) :
        /\ env = [cct |-> c, FREE_XOR |-> fx, RAND_SEED |-> rs, gen_in |-> gi, evl_in |-> ei,
                  batch |-> b, ot_keys |-> OtKeys(evl_inp_cnt(Circuits[c])),
                  NDEBUG |-> FALSE, cut |-> 0]
        /\ gen = Construct
        /\ evl = Construct
        /\ net = [emitted |-> <<>>, ends |-> <<>>, delivered |-> 0, base |-> 0,
                  rows |-> <<>>, tampered |-> {}]
        /\ pass_chk = "none"

GenInit ==
    /\ gen.state = "new"
    /\ \E mask \in BitSeqs(gen_inp_cnt(Cct)), seed \in 0..(NumSeeds - 1) :
         gen' = gen_init(gen, env.ot_keys, mask, seed, Cct)
    /\ UNCHANGED <<env, evl, net, pass_chk>>

ComInit ==
    /\ gen.state = "new"
    /\ \E mask \in BitSeqs(gen_inp_cnt(Cct)), seed \in 0..(NumSeeds - 1) :
         gen' = com_init(gen, env.ot_keys, mask, seed, Cct)
    /\ UNCHANGED <<env, evl, net, pass_chk>>

EvlInit ==
    /\ evl.state = "new"
    /\ gen.state # "new"
    /\ evl' = evl_init(evl, EvlOtKeys, MaskedGenInp, env.evl_in, Cct)
    /\ UNCHANGED <<env, gen, net, pass_chk>>

GenMayStep ==
    /\ evl.state = "evl"
    /\ CaughtUp
    /\ Pending < env.batch

GenNextGate ==
    /\ gen.state = "gen"
    /\ GenMayStep
    /\ gen.m_gate_ix < NumGates
    /\ LET g1 == gen_next_gate(gen, Cct[gen.m_gate_ix + 1], env.FREE_XOR, env.NDEBUG)
       IN  /\ gen' = g1
           /\ net' = Emit(gen, g1)
    /\ UNCHANGED <<env, evl, pass_chk>>

ComNextGate ==
    /\ gen.state = "com"
    /\ GenMayStep
    /\ gen.m_gate_ix < NumGates
    /\ gen' = com_next_gate(gen, Cct[gen.m_gate_ix + 1], env.FREE_XOR, env.RAND_SEED, env.NDEBUG)
    /\ net' = Emit(gen, gen_next_gate(gen, Cct[gen.m_gate_ix + 1], env.FREE_XOR, env.NDEBUG))
    /\ UNCHANGED <<env, evl, pass_chk>>

GenNextGenInpCom ==
    /\ gen.state = "gen"
    /\ evl.state = "evl"
    /\ CaughtUp /\ Pending = 0
    /\ gen.m_gate_ix = NumGates
    /\ gen.m_gen_inp_hash_ix < MaxRows
    /\ net.tampered = {}
    /\ pass_chk = "none"
    /\ \E row \in BitSeqs(gen_inp_cnt(Cct)) :
         LET g1 == gen_next_gen_inp_com(gen, row, gen.m_gen_inp_hash_ix, gen_inp_cnt(Cct))
             n1 == Emit(gen, g1)
         IN  /\ gen' = g1
             /\ net' = [n1 EXCEPT !.rows = Append(@, row)]
    /\ UNCHANGED <<env, evl, pass_chk>>

\* recv(data): the evaluator's input buffer is replaced by data and the cursor
\* is set to its start
recv(e, data) == [e EXCEPT !.m_i_bufr = data, !.m_i_bufr_ix = 0]

\* the decommitments handed to the evaluator out of band: for every generator
\* input the generator has garbled, the side its masked input selects
HandOver(e) ==
    [e EXCEPT !.m_gen_inp_decom =
        [i \in 1..Len(@) |->
            IF i <= gen.m_gen_inp_ix
            THEN gen.m_gen_inp_decom[2 * (i - 1) + e.m_gen_inp_mask[i] + 1]
            ELSE @[i]]]

\* The transport drains the generator's out_buffer (send) and fills the
\* evaluator's in_buffer (recv) with every byte emitted since the last
\* transfer, less the last env.cut bytes (0 on a faithful transport).
Transfer ==
    /\ evl.state = "evl"
    /\ CaughtUp
    /\ Pending > 0
    /\ Pending = env.batch \/ gen.m_gate_ix = NumGates \/ gen.state = "aborted"
    /\ evl' = HandOver(recv(evl, SubSeq(net.emitted, StepStart(net.delivered + 1) + 1,
                                        Len(net.emitted) - env.cut)))
    /\ gen' = [gen EXCEPT !.m_o_bufr = <<>>]
    /\ net' = [net EXCEPT !.delivered = Steps(gen),
                           !.base = StepStart(net.delivered + 1)]
    /\ UNCHANGED <<env, pass_chk>>

\* The evaluator reads m_i_bufr through an unchecked iterator.  A read at or
\* after the end of the buffer is undefined: it yields whatever the memory
\* after the buffer holds (junk, any bytes), or the process is killed (state
\* "crashed").  OnMemory is the buffer as those reads see it.  A call that
\* made such a read and returned leaves the engine in state "overran": what
\* the run does from there on is not defined, and it is followed no further.
OnMemory(e, junk) == [e EXCEPT !.m_i_bufr = @ \o junk]

\* the bytes a step read at or after the end of the buffer
Overrun(e, after) ==
    IF after.m_i_bufr_ix > Len(e.m_i_bufr) THEN after.m_i_bufr_ix - Len(e.m_i_bufr) ELSE 0

Junk(n) == [1..n -> 0..(ByteMod - 1)]

EvlNextGate ==
    /\ evl.state = "evl"
    /\ Steps(evl) < net.delivered
    /\ evl.m_gate_ix < NumGates
    /\ LET gate == Cct[evl.m_gate_ix + 1]
           probe == evl_next_gate(OnMemory(evl, ZeroBytes(MaxCut + 1)), gate,
                                  env.FREE_XOR, env.RAND_SEED)
           over == Overrun(evl, probe)
           \* line 483 folds the buffer itself, not the memory after it
           h == update_hash(evl, evl.m_i_bufr, env.RAND_SEED)
       IN  \/ \E junk \in Junk(over) :
                evl' = [evl_next_gate(OnMemory(evl, junk), gate, env.FREE_XOR, env.RAND_SEED)
                          EXCEPT !.m_i_bufr = evl.m_i_bufr,
                                 !.m_bufr = h.m_bufr, !.m_hash = h.m_hash,
                                 !.state = IF over > 0 THEN "overran" ELSE @]
           \/ over > 0 /\ evl' = [evl EXCEPT !.state = "crashed"]
    /\ UNCHANGED <<env, gen, net, pass_chk>>

EvlNextGenInpCom ==
    /\ evl.state = "evl"
    /\ Steps(evl) < net.delivered
    /\ evl.m_gate_ix = NumGates
    /\ LET row == net.rows[evl.m_gen_inp_hash_ix + 1]
           probe == evl_next_gen_inp_com(OnMemory(evl, ZeroBytes(MaxCut + 1)), row,
                                         evl.m_gen_inp_hash_ix, gen_inp_cnt(Cct))
           over == Overrun(evl, probe)
       IN  \/ \E junk \in Junk(over) :
                evl' = [evl_next_gen_inp_com(OnMemory(evl, junk), row,
                                             evl.m_gen_inp_hash_ix, gen_inp_cnt(Cct))
                          EXCEPT !.m_i_bufr = evl.m_i_bufr,
                                 !.state = IF over > 0 THEN "overran" ELSE @]
           \/ over > 0 /\ evl' = [evl EXCEPT !.state = "crashed"]
    /\ UNCHANGED <<env, gen, net, pass_chk>>

\* At the end of the protocol a decommitment the evaluator holds is replaced
\* by a different byte string: the other side's, or its own with the last
\* byte changed.
Tamper ==
    /\ gen.state = "gen"
    /\ evl.state = "evl"
    /\ evl.m_gate_ix = NumGates
    /\ Steps(gen) = NumGates
    /\ CaughtUp /\ Pending = 0
    /\ \E i \in (1..gen_inp_cnt(Cct)) \ net.tampered, other \in BOOLEAN :
         LET d == evl.m_gen_inp_decom[i]
             repl == IF other
                     THEN gen.m_gen_inp_decom[2 * (i - 1) + (1 - evl.m_gen_inp_mask[i]) + 1]
                     ELSE [d EXCEPT ![Len(d)] = (@ + 1) % ByteMod]
         IN  /\ evl' = [evl EXCEPT !.m_gen_inp_decom[i] = repl]
             /\ net' = [net EXCEPT !.tampered = @ \cup {i}]
    /\ pass_chk' = "none"
    /\ UNCHANGED <<env, gen>>

PassCheck ==
    /\ evl.state = "evl"
    /\ evl.m_gate_ix = NumGates
    /\ CaughtUp /\ Pending = 0
    /\ pass_chk = "none"
    /\ pass_chk' = IF pass_check(evl, gen_inp_cnt(Cct)) THEN "true" ELSE "false"
    /\ UNCHANGED <<env, gen, evl, net>>

Next ==
    \/ GenInit
    \/ ComInit
    \/ EvlInit
    \/ GenNextGate
    \/ ComNextGate
    \/ GenNextGenInpCom
    \/ Transfer
    \/ EvlNextGate
    \/ EvlNextGenInpCom
    \/ Tamper
    \/ PassCheck

Spec == Init /\ [][Next]_vars

\* OT keys of a full word: __m128i-sized strings with bits above Env::k()
WideOtKeys(cnt) ==
    [j \in 1..(2 * cnt) |-> Store(WordMod - 1 - j, WordBytes)]

\* The engines under any caller: the circuits of FedCircuits (every 2-input
\* table; a gate of arity 3), a build with or without NDEBUG, OT keys of k
\* bits or of a full word, and a transport that may hand over short buffers.
\* One departure from the faithful setting at a time.
InitFed ==
    \E c \in (Len(Circuits) + 1)..Len(AllCircuits), fx \in BOOLEAN, b \in 1..MaxBatch,
       nd \in BOOLEAN, wide \in BOOLEAN, cut \in 0..MaxCut :
      \E gi \in BitSeqs(gen_inp_cnt(AllCircuits[c])),
         ei \in BitSeqs(evl_inp_cnt(AllCircuits[c])) :
        /\ (nd => c = Len(AllCircuits)) /\ (wide => cut = 0)
        /\ env = [cct |-> c, FREE_XOR |-> fx, RAND_SEED |-> FALSE, gen_in |-> gi, evl_in |-> ei,
                  batch |-> b,
                  ot_keys |-> IF wide THEN WideOtKeys(evl_inp_cnt(AllCircuits[c]))
                              ELSE OtKeys(evl_inp_cnt(AllCircuits[c])),
                  NDEBUG |-> nd, cut |-> cut]
        /\ gen = Construct
        /\ evl = Construct
        /\ net = [emitted |-> <<>>, ends |-> <<>>, delivered |-> 0, base |-> 0,
                  rows |-> <<>>, tampered |-> {}]
        /\ pass_chk = "none"

SpecFed == InitFed /\ [][Next]_vars

\* ===================================================================== claims

\* the plain value of every wire of the circuit on the parties' inputs
PlainNow == PlainVals(Cct, env.gen_in, env.evl_in, NumGates)

\* the output string an engine should hold: bit j is the plain value of the
\* j-th gate tagged tag, in gate order
RECURSIVE PlainOut(_, _, _)
PlainOut(tag, cnt, n) ==
    IF n = 0 THEN OutBytes(<<>>, cnt)
    ELSE IF Cct[n].m_tag = tag
         THEN set_ith_bit(PlainOut(tag, cnt, n - 1), CountTag(Cct, tag, n) - 1, PlainNow[n])
         ELSE PlainOut(tag, cnt, n - 1)

EvlDone == evl.state = "evl" /\ evl.m_gate_ix = NumGates

\* C1: honest end-to-end correctness.  Once the evaluator has processed the
\* last gate of the generator's stream, with the matching OT keys and
\* decommitments, every bit of evl_out and of gen_out is the plain circuit's
\* output bit of that output gate.
C1_Correctness ==
    EvlDone =>
        /\ evl.m_evl_out = PlainOut("EVL_OUT", evl_out_cnt(Cct), NumGates)
        /\ evl.m_gen_out = PlainOut("GEN_OUT", gen_out_cnt(Cct), NumGates)

\* a finished run of a circuit with both output kinds, a 1-input and a 2-input
\* garbled gate, whose outputs are both 1
C1_Witness ==
    /\ EvlDone
    /\ env.cct = 4
    /\ evl.m_evl_out = <<1>>
    /\ evl.m_gen_out = <<1>>

\* C2: stream synchronisation.  While the gates are processed, the evaluator's
\* position in the stream (the offset of its buffer plus its cursor) is the
\* total length the generator emitted for the gates the evaluator has
\* processed: each evl_next_gate advances the cursor by the bytes gen_next_gate
\* appended for that gate.
C2_StreamSync ==
    (evl.state = "evl" /\ evl.m_gen_inp_hash_ix = 0) =>
        net.base + evl.m_i_bufr_ix =
            (IF evl.m_gate_ix = 0 THEN 0 ELSE net.ends[evl.m_gate_ix])

\* the evaluator has consumed, from a buffer that holds two gates, a garbled
\* 1-input gate with an output tag after inputs and a garbled 2-input gate
C2_Witness ==
    /\ EvlDone
    /\ env.cct = 4
    /\ env.batch = 2
    /\ evl.m_i_bufr_ix > 0
    /\ evl.m_gen_inp_hash_ix = 0

\* the bytes the claim gives a gate under GRR and FREE_XOR
RowBytes(gate) ==
    (IF gate.m_tag \in {"GEN_INP", "EVL_INP"} THEN 2 * KeyBytes
     ELSE IF is_xor(gate) THEN 0
     ELSE IF Len(gate.m_input_idx) = 2 THEN 3 * KeyBytes
     ELSE KeyBytes)
    + (IF gate.m_tag \in {"GEN_OUT", "EVL_OUT"} THEN 1 ELSE 0)

\* C3: row count.  With GRR and FREE_XOR on, gen_next_gate appends 3K bytes for
\* a non-XOR 2-input gate, K for a non-XOR 1-input gate, 0 for an XOR gate, 2K
\* for a GEN_INP and for an EVL_INP gate, and 1 more byte for an output gate.
C3_RowCount ==
    env.FREE_XOR =>
        \A n \in 1..gen.m_gate_ix :
            net.ends[n] - StepStart(n) = RowBytes(Cct[n])

\* the generator has garbled, with FREE_XOR on, a circuit with both input
\* kinds, an untagged XOR gate and tagged 2-input gates
C3_Witness ==
    /\ env.FREE_XOR
    /\ env.cct = 5
    /\ gen.m_gate_ix = NumGates

\* the bytes the generator emitted for its first n steps
EmittedUpTo(n) == SubSeq(net.emitted, 1, IF n = 0 THEN 0 ELSE net.ends[n])

\* C4: hash agreement.  With a committing generator and an evaluator on its
\* stream, after every gate the bytes each party has folded into its
\* RunningHash are the bytes emitted for the gates it has processed: the
\* evaluator folds exactly the slice it consumed for each gate, so the two
\* folded sequences agree.
C4_HashAgreement ==
    (gen.state = "com" /\ evl.state = "evl") =>
        /\ Folded(gen) = EmittedUpTo(gen.m_gate_ix)
        /\ Folded(evl) = EmittedUpTo(evl.m_gate_ix)

\* C5: pass_check returns true iff the hash of every decom[i] equals the stored
\* commit[i], one mismatch making it false whatever the others, and the call
\* changes nothing else.
C5_PassCheck ==
    /\ [](pass_chk # "none" =>
            (pass_chk = "true" <=>
                \A i \in 1..gen_inp_cnt(Cct) :
                    Hash(evl.m_gen_inp_decom[i]) = evl.m_gen_inp_com[i]))
    /\ [][(pass_chk' # pass_chk /\ pass_chk' # "none") =>
            UNCHANGED <<env, gen, evl, net>>]_vars

\* pass_check returned false with the first of two decommitments mismatching
\* and the second matching
C5_Witness ==
    /\ pass_chk = "false"
    /\ gen_inp_cnt(Cct) = 2
    /\ Hash(evl.m_gen_inp_decom[1]) # evl.m_gen_inp_com[1]
    /\ Hash(evl.m_gen_inp_decom[2]) = evl.m_gen_inp_com[2]

\* C6: commitment selection.  The commitment the evaluator stores for generator
\* input i is the hash of the generator's decommitment D[2i + m], m the masked
\* input bit; so pass_check is true after an honest run and false once exactly
\* one decom[i] has been replaced by a different byte string.
C6_CommitSelection ==
    evl.state = "evl" =>
        /\ \A i \in 1..evl.m_gen_inp_ix :
             evl.m_gen_inp_com[i] =
                 Hash(gen.m_gen_inp_decom[2 * (i - 1) + evl.m_gen_inp_mask[i] + 1])
        /\ (pass_chk # "none" /\ net.tampered = {}) => pass_chk = "true"
        /\ (pass_chk # "none" /\ Cardinality(net.tampered) = 1) => pass_chk = "false"

\* pass_check returned false after one decommitment was replaced by the other
\* side's decommitment, on a masked input bit of 1
C6_Witness ==
    /\ pass_chk = "false"
    /\ \E i \in 1..gen_inp_cnt(Cct) :
         /\ net.tampered = {i}
         /\ evl.m_gen_inp_mask[i] = 1
         /\ evl.m_gen_inp_decom[i] = gen.m_gen_inp_decom[2 * (i - 1) + 1]

\* the parity of the generator input over the positions a row selects
RECURSIVE Parity(_, _, _)
Parity(bits, row, n) ==
    IF n = 0 THEN 0 ELSE (Parity(bits, row, n - 1) + bits[n] * row[n]) % 2

\* the decommitments the evaluator would hold had gen_in differed at position
\* j alone: the other side of pair j (the generator's run does not read gen_in)
FlippedDecom(j) ==
    [evl.m_gen_inp_decom EXCEPT
        ![j] = gen.m_gen_inp_decom[2 * (j - 1) + (1 - evl.m_gen_inp_mask[j]) + 1]]

\* C7: input-binding linearity.  For every row kx the evaluator has
\* processed, rerunning evl_next_gen_inp_com on the same 2K bytes of the stream
\* with gen_in changed at one position j writes the opposite bit when
\* row[j] = 1 and the same bit when row[j] = 0.
C7_Linearity ==
    evl.state = "evl" =>
        \A k \in 1..evl.m_gen_inp_hash_ix :
            LET kx == k - 1
                row == net.rows[k]
                written == ByteBit(evl.m_gen_inp_hash, kx)
            IN  \A j \in 1..gen_inp_cnt(Cct) :
                    LET other == evl_gen_inp_com_bit(FlippedDecom(j), net.emitted,
                                                     StepStart(NumGates + k),
                                                     row, kx, gen_inp_cnt(Cct))
                    IN  IF row[j] = 1 THEN other # written ELSE other = written

\* the evaluator has written the bit of a row that selects the first of two
\* generator inputs and not the second
C7_Witness ==
    /\ evl.state = "evl"
    /\ evl.m_gen_inp_hash_ix > 0
    /\ gen_inp_cnt(Cct) = 2
    /\ net.rows[evl.m_gen_inp_hash_ix] = <<1, 0>>

\* C8: cross-circuit commitment.  Whatever the seed (R, labels, salts, output
\* labels) and the mask, the bit the evaluator writes at gen_inp_hash[kx] is the
\* parity of gen_in over the positions the row selects; two instances with the
\* same generator input therefore write the same bit.
C8_CrossCircuit ==
    evl.state = "evl" =>
        \A k \in 1..evl.m_gen_inp_hash_ix :
            ByteBit(evl.m_gen_inp_hash, k - 1)
                = Parity(env.gen_in, net.rows[k], gen_inp_cnt(Cct))

\* the evaluator has written a 1 for a row selecting both generator inputs,
\* under a non-zero mask
C8_Witness ==
    /\ evl.state = "evl"
    /\ evl.m_gen_inp_hash_ix > 0
    /\ net.rows[1] = <<1, 1>>
    /\ gen.m_gen_inp_mask = <<1, 0>>
    /\ ByteBit(evl.m_gen_inp_hash, 0) = 1

\* b * R
TimesR(b) == IF b = 1 THEN gen.m_R ELSE 0

\* C9 as stated: every written entry of W, in the generator and in the
\* evaluator, is the zero label of its wire (the label that encodes false).
C9_ZeroLabelsOnly ==
    evl.state = "evl" =>
        \A i \in 0..(NumGates - 1) :
            evl.m_w[i] # Unset => evl.m_w[i] = gen.m_w[i]

\* C9 amended: the generator's W[i] is the zero label of wire i; the
\* evaluator's W[i] is the active label of wire i, the generator's W[i] XOR
\* v*R with v the plain value of the wire, so it is the zero label exactly
\* when the wire carries false.
C9_WireLabels ==
    evl.state = "evl" =>
        \A i \in 0..(NumGates - 1) :
            evl.m_w[i] # Unset =>
                evl.m_w[i] = _mm_xor_si128(gen.m_w[i], TimesR(PlainNow[i + 1]))

\* the evaluator holds the one label of a garbled 2-input gate's wire and the
\* zero label of another wire
C9_Witness ==
    /\ EvlDone
    /\ env.cct = 5
    /\ evl.m_w[4] = _mm_xor_si128(gen.m_w[4], gen.m_R)
    /\ \E i \in 0..3 : evl.m_w[i] = gen.m_w[i]

\* the wire written by the i-th (1-based) gate tagged tag
WireOf(tag, i) ==
    Cct[CHOOSE n \in 1..NumGates : Cct[n].m_tag = tag /\ CountTag(Cct, tag, n) = i].m_idx

\* the label an evaluator holding the labels of the values x, y on the input
\* wires of generator step n computes from the bytes emitted for that gate
DecodeGate(n, x, y) ==
    LET gate == Cct[n]
        in == gate.m_input_idx
        w == [i \in DOMAIN gen.m_w |->
                IF i = in[1] THEN _mm_xor_si128(gen.m_w[i], TimesR(x))
                ELSE IF Len(in) = 2 /\ i = in[2] THEN _mm_xor_si128(gen.m_w[i], TimesR(y))
                ELSE gen.m_w[i]]
        e == [Construct EXCEPT !.m_w = w, !.m_gate_ix = n - 1, !.m_i_bufr_ix = 0,
                !.m_i_bufr = SubSeq(net.emitted, StepStart(n) + 1, net.ends[n])]
    IN  evl_internal(e, gate, env.FREE_XOR).key

\* the output bit of a gate on input values x, y
TableBit(gate, x, y) ==
    IF Len(gate.m_input_idx) = 2 THEN gate.m_table[2 * y + x + 1] ELSE gate.m_table[x + 1]

\* C10: R-offset invariant.  Once the generator is initialised bit 0 of R is 1
\* and no later call changes R; the one label of every wire the generator has
\* used is W[i] XOR R with that R: in the decommitment pairs, in the EVL_INP
\* ciphertexts and in the garbled rows and GRR output labels (each row decrypts
\* to W[out] or W[out] XOR R); the two labels of a wire have opposite
\* permutation bits.
C10_ROffset ==
    /\ [](gen.state # "new" =>
            /\ LowBit(gen.m_R) = 1
            /\ \A i \in 0..(gen.m_gate_ix - 1) :
                 LowBit(gen.m_w[i]) # LowBit(_mm_xor_si128(gen.m_w[i], gen.m_R))
            /\ \A i \in 1..gen.m_gen_inp_ix, b \in {0, 1} :
                 Load(Slice(gen.m_gen_inp_decom[2 * (i - 1) + b + 1], 0, KeyBytes))
                   = _mm_xor_si128(gen.m_w[WireOf("GEN_INP", i)],
                                   TimesR((b + gen.m_gen_inp_mask[i]) % 2))
            /\ \A n \in 1..gen.m_gate_ix :
                 /\ Cct[n].m_tag = "EVL_INP" =>
                      \A b \in {0, 1} :
                          _mm_xor_si128(
                              Load(Slice(net.emitted, StepStart(n) + b * KeyBytes, KeyBytes)),
                              Load(gen.m_ot_keys[2 * (CountTag(Cct, "EVL_INP", n) - 1) + b + 1]))
                            = _mm_xor_si128(gen.m_w[n - 1], TimesR(b))
                 /\ Cct[n].m_tag \notin {"GEN_INP", "EVL_INP"} =>
                      \A x \in {0, 1}, y \in {0, 1} :
                          DecodeGate(n, x, y)
                            = _mm_xor_si128(gen.m_w[n - 1], TimesR(TableBit(Cct[n], x, y))))
    /\ [][gen.state # "new" => gen.m_R' = gen.m_R]_vars

\* the generator has garbled every gate of a circuit with a decommitment pair
\* under mask bit 1, an EVL_INP gate and garbled 1-input and 2-input gates,
\* and then an input-commitment row
C10_Witness ==
    /\ gen.state = "gen"
    /\ env.cct = 4
    /\ ~env.FREE_XOR
    /\ gen.m_gate_ix = NumGates
    /\ gen.m_gen_inp_mask = <<1>>
    /\ gen.m_gen_inp_hash_ix = 1

\* C11: masking.  In every reachable state of the generator and of the
\* evaluator, every label stored in W has all bits at positions k and above
\* equal to zero, whatever OT keys and in_buffer content the engine is given.
C11_Masking ==
    /\ \A i \in DOMAIN gen.m_w : gen.m_w[i] # Unset => gen.m_w[i] < KMod
    /\ \A i \in DOMAIN evl.m_w : evl.m_w[i] # Unset => evl.m_w[i] < KMod

\* com_next_gate on the first n gates, from the engine g0
RECURSIVE ComRun(_, _)
ComRun(g0, n) ==
    IF n = 0 THEN g0
    ELSE com_next_gate(ComRun(g0, n - 1), Cct[n], env.FREE_XOR, env.RAND_SEED, env.NDEBUG)

\* A second committing run with the generator's seed, mask and OT keys:
\* com_init on the engine object as it is now, then com_next_gate on the
\* first n gates.
ComRerun(n) ==
    ComRun(com_init(gen, gen.m_ot_keys, gen.m_gen_inp_mask, gen.m_prng.seed, Cct), n)

\* the complement of a bit string
Flipped(bits) == [i \in 1..Len(bits) |-> 1 - bits[i]]

\* An engine object another committing run (seed, mask) has used for the
\* whole circuit.
UsedCom(seed, mask) == ComRun(com_init(Construct, gen.m_ot_keys, mask, seed, Cct), NumGates)

\* The generator's run repeated on such an object.
ComRerunOn(used, n) ==
    ComRun(com_init(used, gen.m_ot_keys, gen.m_gen_inp_mask, gen.m_prng.seed, Cct), n)

\* the in_buffer the transport handed over before gate j, the first of a batch
Delivery(j) ==
    LET last == IF j + env.batch - 1 <= NumGates THEN j + env.batch - 1 ELSE NumGates
    IN  SubSeq(net.emitted, StepStart(j) + 1, net.ends[last])

\* The same deliveries and evl_next_gate on the first n gates, from the
\* engine e0.
RECURSIVE EvlRun(_, _)
EvlRun(e0, n) ==
    IF n = 0 THEN e0
    ELSE LET p == EvlRun(e0, n - 1)
             fed == IF (n - 1) % env.batch = 0 THEN HandOver(recv(p, Delivery(n))) ELSE p
         IN  evl_next_gate(fed, Cct[n], env.FREE_XOR, env.RAND_SEED)

\* A second evaluating run on the same stream, buffers, keys, decommitments
\* and inputs: evl_init on the engine object as it is now (a used one: its
\* strings keep what the first run left in them), then n gates.
EvlRerun(n) ==
    EvlRun(evl_init(evl, evl.m_ot_keys, evl.m_gen_inp_mask, evl.m_evl_inp, Cct), n)

\* The same run on an object fresh from construction.
EvlFresh(n) ==
    EvlRun(evl_init(Construct, evl.m_ot_keys, evl.m_gen_inp_mask, evl.m_evl_inp, Cct), n)

\* what n gates of a committing run produce is the same in r and g
SameProduceCom(r, g, n) ==
    /\ r.m_o_bufr = g.m_o_bufr
    /\ r.m_R = g.m_R
    /\ Folded(r) = Folded(g)
    /\ r.m_gen_inp_ix = g.m_gen_inp_ix
    /\ \A j \in 1..n : r.m_w[Cct[j].m_idx] = g.m_w[Cct[j].m_idx]
    /\ \A i \in 1..(2 * g.m_gen_inp_ix) : r.m_gen_inp_decom[i] = g.m_gen_inp_decom[i]
    /\ n = NumGates => r.m_w = g.m_w /\ r.m_gen_inp_decom = g.m_gen_inp_decom

\* what n gates of an evaluating run produce is the same in r and e
SameProduceEvl(r, e, n) ==
    /\ Folded(r) = Folded(e)
    /\ r.m_evl_out_ix = e.m_evl_out_ix /\ r.m_gen_out_ix = e.m_gen_out_ix
    /\ r.m_gen_inp_ix = e.m_gen_inp_ix
    /\ \A k \in 0..(e.m_evl_out_ix - 1) : ByteBit(r.m_evl_out, k) = ByteBit(e.m_evl_out, k)
    /\ \A k \in 0..(e.m_gen_out_ix - 1) : ByteBit(r.m_gen_out, k) = ByteBit(e.m_gen_out, k)
    /\ \A j \in 1..n : r.m_w[Cct[j].m_idx] = e.m_w[Cct[j].m_idx]
    /\ \A i \in 1..e.m_gen_inp_ix : r.m_gen_inp_com[i] = e.m_gen_inp_com[i]
    /\ n = NumGates =>
          /\ r.m_evl_out = e.m_evl_out /\ r.m_gen_out = e.m_gen_out
          /\ r.m_w = e.m_w /\ r.m_gen_inp_com = e.m_gen_inp_com

\* C12: hash determinism.  A second generator run (com_init, then the same
\* gates through com_next_gate) with the same seed, mask and OT keys has,
\* after every gate, the same out_buffer, the same W, the same decommitments
\* and the same bytes folded into the RunningHash; a second evaluator run on
\* the same stream, keys and inputs has the same outputs and the same bytes
\* folded.  The second run is taken on the engine object as it is now and on
\* objects other runs have used (every other seed, with the complementary
\* mask, for the generator; the evaluator's own later state against a fresh
\* object): com_init and evl_init resize the strings and keep W, so what an
\* earlier run left stays in the slots the run has not yet written, and the
\* runs agree on every slot written so far and, after the last gate, on
\* everything.  (The generator's comparison is made in the states where the
\* evaluator has caught up, which every generator state passes through; the
\* evaluator's when it has just passed the last gate, for every number of
\* gates.)
C12_Determinism ==
    /\ gen.state = "com" =>
         /\ LET r == ComRerun(gen.m_gate_ix)
            IN  /\ r.m_o_bufr = gen.m_o_bufr
                /\ r.m_w = gen.m_w
                /\ r.m_gen_inp_decom = gen.m_gen_inp_decom
                /\ r.m_R = gen.m_R
                /\ Folded(r) = Folded(gen)
         /\ CaughtUp =>
             \A seed \in 0..(NumSeeds - 1) \ {gen.m_prng.seed} :
               SameProduceCom(ComRerunOn(UsedCom(seed, Flipped(gen.m_gen_inp_mask)),
                                         gen.m_gate_ix),
                              gen, gen.m_gate_ix)
    /\ evl.state = "evl" =>
         /\ LET r == EvlRerun(evl.m_gate_ix)
            IN  /\ r.m_evl_out = evl.m_evl_out
                /\ r.m_gen_out = evl.m_gen_out
                /\ r.m_w = evl.m_w
                /\ r.m_gen_inp_com = evl.m_gen_inp_com
                /\ Folded(r) = Folded(evl)
         /\ (evl.m_gate_ix = NumGates /\ Steps(gen) = NumGates /\ net.tampered = {}) =>
             \A n \in 0..NumGates :
               SameProduceEvl(EvlRerun(n), EvlFresh(n), n)

\* both engines have processed every gate of the six-gate circuit with both
\* output kinds, the generator committing, the stream absorbed in chunks
C12_Witness ==
    /\ gen.state = "com"
    /\ EvlDone
    /\ env.cct = 6
    /\ env.RAND_SEED
    /\ env.batch = 2
    /\ Len(gen.m_hash) > 0
    /\ CaughtUp /\ net.tampered = {}
    /\ gen.m_gen_inp_mask = <<1>>

\* the bytes the current gate requires of in_buffer: 2K for an input gate, 3K
\* or K for a garbled 2-input or 1-input gate, none for a free-XOR gate, and 1
\* more for an output tag
NeedBytes(gate) ==
    (IF gate.m_tag \in {"GEN_INP", "EVL_INP"} THEN 2 * KeyBytes
     ELSE IF env.FREE_XOR /\ is_xor(gate) THEN 0
     ELSE IF Len(gate.m_input_idx) = 2 THEN 3 * KeyBytes
     ELSE KeyBytes)
    + (IF gate.m_tag \in {"GEN_OUT", "EVL_OUT"} THEN 1 ELSE 0)

\* bytes of in_buffer after the cursor
Remaining(e) ==
    IF e.m_i_bufr_ix < Len(e.m_i_bufr) THEN Len(e.m_i_bufr) - e.m_i_bufr_ix ELSE 0

\* the evaluator stopped with a fatal error of its own and touched nothing
EvlSignalled ==
    /\ evl'.state = "aborted"
    /\ evl'.m_w = evl.m_w
    /\ evl'.m_evl_out = evl.m_evl_out
    /\ evl'.m_gen_out = evl.m_gen_out
    /\ evl'.m_gen_inp_hash = evl.m_gen_inp_hash
    /\ evl'.m_i_bufr_ix = evl.m_i_bufr_ix

\* C13: buffer underrun.  A call of evl_next_gate or evl_next_gen_inp_com
\* with fewer bytes after the cursor than the gate (the row) requires ends in
\* a fatal error signalled by the engine: nothing is read past the end of the
\* buffer, no label is written into W, no output bit is set and the cursor is
\* not advanced.
C13_Underrun ==
    [][/\ (EvlNextGate /\ Remaining(evl) < NeedBytes(Cct[evl.m_gate_ix + 1]) => EvlSignalled)
       /\ (EvlNextGenInpCom /\ Remaining(evl) < 2 * KeyBytes => EvlSignalled)]_vars

\* the gate's number of inputs is neither 1 nor 2 although it is no input gate
BadArity(gate) ==
    gate.m_tag \notin {"GEN_INP", "EVL_INP"} /\ Len(gate.m_input_idx) \notin {1, 2}

\* the generator stopped with a fatal error and touched nothing
GenRejected ==
    /\ gen'.state = "aborted"
    /\ gen'.m_o_bufr = gen.m_o_bufr
    /\ gen'.m_w = gen.m_w
    /\ gen'.m_gate_ix = gen.m_gate_ix
    /\ net'.emitted = net.emitted

\* C14: arity precondition.  A gate that is no input gate and has neither 1
\* nor 2 inputs is rejected with a fatal error by gen_next_gate and by
\* evl_next_gate before a byte is emitted or consumed, a label is written to
\* W or the gate index is advanced; it is never processed as a 1-input gate.
C14_Arity ==
    [][/\ ((GenNextGate \/ ComNextGate) /\ BadArity(Cct[gen.m_gate_ix + 1]) => GenRejected)
       /\ (EvlNextGate /\ BadArity(Cct[evl.m_gate_ix + 1]) =>
               EvlSignalled /\ evl'.m_gate_ix = evl.m_gate_ix)]_vars

\* the plain values of the wires of the run's circuit
Plain(i) == PlainNow[i + 1]

\* gate n (1-based) is garbled with the 2-input kernel
Garbled2(n) ==
    /\ Cct[n].m_tag \notin {"GEN_INP", "EVL_INP"}
    /\ Len(Cct[n].m_input_idx) = 2
    /\ ~(env.FREE_XOR /\ is_xor(Cct[n]))

\* the label the claim gives the evaluator for gate n from the labels A, B:
\* the masked KDF output for row 0, else the KDF output XOR the
\* (garbled_ix - 1)-th ciphertext the generator emitted for the gate
RowLabel(n, A, B) ==
    LET garbled_ix == 2 * LowBit(B) + LowBit(A)
        C == _mm_and_si128(KDF256(_mm_set1_epi64x(n - 1), A, B), ClearMask)
    IN  IF garbled_ix = 0 THEN C
        ELSE _mm_xor_si128(C, Load(Slice(net.emitted,
                                         StepStart(n) + (garbled_ix - 1) * KeyBytes,
                                         KeyBytes)))

\* C15: 2-input row agreement under GRR.  For every 2-input table and every
\* pair of input values (x, y): when the evaluator holds A = X0 XOR x*R and
\* B = Y0 XOR y*R and has evaluated the gate on the generator's bytes, the
\* label it stored is the one garbled_ix = (lsb(B)<<1)|lsb(A) selects (the KDF
\* output for row 0, the KDF output XOR ciphertext garbled_ix - 1 otherwise)
\* and equals Z0 XOR table[(y<<1)|x]*R, Z0 being the generator's W entry.
C15_RowAgreement ==
    (evl.state = "evl" /\ env.cut = 0) =>
        \A n \in 1..evl.m_gate_ix :
            LET gate == Cct[n]
                a == gate.m_input_idx[1]
                b == gate.m_input_idx[2]
                A == evl.m_w[a]
                B == evl.m_w[b]
            IN  (/\ Garbled2(n)
                 /\ A = _mm_xor_si128(gen.m_w[a], TimesR(Plain(a)))
                 /\ B = _mm_xor_si128(gen.m_w[b], TimesR(Plain(b))))
                => /\ evl.m_w[gate.m_idx] = RowLabel(n, A, B)
                   /\ evl.m_w[gate.m_idx]
                        = _mm_xor_si128(gen.m_w[gate.m_idx],
                                        TimesR(gate.m_table[2 * Plain(b) + Plain(a) + 1]))

\* the evaluator has evaluated the gate with table 0100 (y and not x) on
\* x = 0, y = 1 from the last row of the garbled table
C15_Witness ==
    /\ evl.state = "evl" /\ env.cut = 0
    /\ evl.m_gate_ix = 3
    /\ Garbled2(3)
    /\ Cct[3].m_table = <<0, 0, 1, 0>>
    /\ env.gen_in = <<0>> /\ env.evl_in = <<1>>
    /\ env.ot_keys = OtKeys(1)
    /\ 2 * LowBit(evl.m_w[1]) + LowBit(evl.m_w[0]) = 3
    /\ evl.m_w[2] = _mm_xor_si128(gen.m_w[2], gen.m_R)

\* the gates the claim names: a 2-input gate with table 0110, a 1-input gate
\* whose table passes the input through
FreeShape(gate) ==
    /\ gate.m_tag \notin {"GEN_INP", "EVL_INP"}
    /\ \/ Len(gate.m_input_idx) = 2 /\ gate.m_table = <<0, 1, 1, 0>>
       \/ Len(gate.m_input_idx) = 1 /\ gate.m_table = <<0, 1>>

\* the XOR of the labels w holds for the gate's inputs
XorOfInputs(w, gate) ==
    IF Len(gate.m_input_idx) = 2
    THEN _mm_xor_si128(w[gate.m_input_idx[1]], w[gate.m_input_idx[2]])
    ELSE w[gate.m_input_idx[1]]

TagLen(gate) == IF gate.m_tag \in {"GEN_OUT", "EVL_OUT"} THEN 1 ELSE 0

\* C16: free-XOR gates.  With FREE_XOR on, for a 2-input gate with table 0110
\* the generator stores Z0 = X0 XOR Y0 and the evaluator A XOR B, for a
\* 1-input pass-through gate Z0 = X0 and A; the step emits or consumes no byte
\* but an output tag and draws nothing from the PRNG (a KDF call leaves no
\* trace in the state; the stored label is the XOR itself); and the
\* evaluator's label is Z0 XOR v*R, v the gate's table applied to the inputs.
C16_FreeXor ==
    [][/\ ((GenNextGate \/ ComNextGate) /\ env.FREE_XOR /\ FreeShape(Cct[gen.m_gate_ix + 1])) =>
            LET gate == Cct[gen.m_gate_ix + 1]
            IN  /\ gen'.m_w[gate.m_idx] = XorOfInputs(gen.m_w, gate)
                /\ Len(net'.emitted) = Len(net.emitted) + TagLen(gate)
                /\ gen'.m_prng = gen.m_prng
       /\ (EvlNextGate /\ env.FREE_XOR /\ FreeShape(Cct[evl.m_gate_ix + 1])) =>
            LET gate == Cct[evl.m_gate_ix + 1]
            IN  /\ evl'.m_w[gate.m_idx] = XorOfInputs(evl.m_w, gate)
                /\ evl'.m_i_bufr_ix = evl.m_i_bufr_ix + TagLen(gate)
                /\ evl'.m_w[gate.m_idx]
                     = _mm_xor_si128(gen.m_w[gate.m_idx], TimesR(Plain(gate.m_idx)))]_vars

\* with FREE_XOR on the evaluator has passed a tagged free 2-input XOR whose
\* wire carries 1 and a free 1-input gate
C16_Witness ==
    /\ env.FREE_XOR
    /\ env.cct = 6
    /\ evl.state = "evl"
    /\ evl.m_gate_ix >= 5
    /\ Plain(3) = 1
    /\ evl.m_w[3] = _mm_xor_si128(evl.m_w[2], evl.m_w[1])
    /\ evl.m_w[4] = evl.m_w[3]

\* a gate of the garbled branches: no input gate, not free
Garbled(gate) ==
    /\ gate.m_tag \notin {"GEN_INP", "EVL_INP"}
    /\ ~(env.FREE_XOR /\ is_xor(gate))

\* the zero key a generator holding the labels w and the offset R derives for
\* the garbled gate under the KDF tweak t: row 0 of the permuted table is the
\* masked KDF output, the zero key that output XOR R when the row's bit is 1
TweakedZeroKey(gate, w, R, t) ==
    LET inputs == gate.m_input_idx
        X0 == w[inputs[1]]
        kx == IF LowBit(X0) = 0 THEN X0 ELSE _mm_xor_si128(X0, R)
    IN  IF Len(inputs) = 2
        THEN LET Y0 == w[inputs[2]]
                 ky == IF LowBit(Y0) = 0 THEN Y0 ELSE _mm_xor_si128(Y0, R)
                 c0 == _mm_and_si128(KDF256(t, kx, ky), ClearMask)
                 bit == gate.m_table[2 * LowBit(Y0) + LowBit(X0) + 1]
             IN  IF bit = 0 THEN c0 ELSE _mm_xor_si128(c0, R)
        ELSE LET c0 == _mm_and_si128(KDF128(t, kx), ClearMask)
                 bit == gate.m_table[LowBit(X0) + 1]
             IN  IF bit = 0 THEN c0 ELSE _mm_xor_si128(c0, R)

\* the label an evaluator holding the labels w derives for the garbled gate
\* under the KDF tweak t from the rows at offset ix of the buffer
TweakedLabel(gate, w, bufr, ix, t) ==
    LET inputs == gate.m_input_idx
        A == w[inputs[1]]
    IN  IF Len(inputs) = 2
        THEN LET B == w[inputs[2]]
                 c == _mm_and_si128(KDF256(t, A, B), ClearMask)
                 garbled_ix == 2 * LowBit(B) + LowBit(A)
             IN  IF garbled_ix = 0 THEN c
                 ELSE _mm_xor_si128(c, Load(Slice(bufr, ix + (garbled_ix - 1) * KeyBytes,
                                                  KeyBytes)))
        ELSE LET c == _mm_and_si128(KDF128(t, A), ClearMask)
             IN  IF LowBit(A) = 0 THEN c
                 ELSE _mm_xor_si128(c, Load(Slice(bufr, ix, KeyBytes)))

\* C17: tweak agreement.  Every next_gate call of either engine, whatever the
\* gate's kind, advances the engine's gate index by exactly one, so the index
\* a gate meets is its id (the W slot it writes); and for every gate of the
\* garbled branches the generator's zero key and the evaluator's label are
\* the ones derived under the tweak whose two halves both equal that id.
C17_TweakAgreement ==
    [][/\ (GenNextGate \/ ComNextGate) =>
            LET gate == Cct[gen.m_gate_ix + 1]
            IN  /\ gen'.m_gate_ix = gen.m_gate_ix + 1
                /\ gate.m_idx = gen.m_gate_ix
                /\ Garbled(gate) =>
                       gen'.m_w[gate.m_idx]
                         = TweakedZeroKey(gate, gen.m_w, gen.m_R, <<gate.m_idx, gate.m_idx>>)
       /\ EvlNextGate =>
            LET gate == Cct[evl.m_gate_ix + 1]
            IN  /\ evl'.m_gate_ix = evl.m_gate_ix + 1
                /\ gate.m_idx = evl.m_gate_ix
                /\ Garbled(gate) =>
                       evl'.m_w[gate.m_idx]
                         = TweakedLabel(gate, evl.m_w, evl.m_i_bufr, evl.m_i_bufr_ix,
                                        <<gate.m_idx, gate.m_idx>>)]_vars

\* both engines have passed a garbled 2-input gate that follows two input
\* gates, a free XOR and a garbled output gate, and their labels for it agree
C17_Witness ==
    /\ env.FREE_XOR
    /\ env.cct = 5
    /\ gen.m_gate_ix = 6 /\ evl.m_gate_ix = 6
    /\ evl.state = "evl"
    /\ Garbled(Cct[6])
    /\ evl.m_w[5] = _mm_xor_si128(gen.m_w[5], TimesR(Plain(5)))

\* C18: GEN_INP decommitment layout.  When the generator processes the i-th
\* GEN_INP gate, with Z0 the label it draws and m = gen_inp_mask[i]: the label
\* part of D[2i + b] is Z0 XOR (b XOR m)*R for b in {0, 1}, each of the two
\* decommitments is two keys long, the step emits hash(D[2i]) followed by
\* hash(D[2i + 1]) and nothing else, W[gate id] = Z0, and the decommitment
\* slots of the other input indices are as before.
C18_DecomLayout ==
    [][((GenNextGate \/ ComNextGate) /\ Cct[gen.m_gate_ix + 1].m_tag = "GEN_INP") =>
          LET gate == Cct[gen.m_gate_ix + 1]
              i == gen.m_gen_inp_ix
              m == get_ith_bit(gen.m_gen_inp_mask, i)
              Z0 == Rand(gen.m_prng.seed, gen.m_prng.n)
              D == gen'.m_gen_inp_decom
          IN  /\ \A b \in {0, 1} :
                    /\ Load(Slice(D[2 * i + b + 1], 0, KeyBytes))
                         = _mm_xor_si128(Z0, IF XorN(b, m) = 1 THEN gen.m_R ELSE 0)
                    /\ Len(D[2 * i + b + 1]) = 2 * KeyBytes
              /\ net'.emitted = net.emitted \o Hash(D[2 * i + 1]) \o Hash(D[2 * i + 2])
              /\ gen'.m_w[gate.m_idx] = Z0
              /\ DOMAIN D = DOMAIN gen.m_gen_inp_decom
              /\ \A j \in DOMAIN D :
                    j \notin {2 * i + 1, 2 * i + 2} => D[j] = gen.m_gen_inp_decom[j]]_vars

\* the generator has processed its second GEN_INP gate under the mask 01:
\* slot 2 holds the one label, slot 3 the zero label, slots 0 and 1 are set
C18_Witness ==
    /\ env.cct = 1
    /\ gen.m_gen_inp_ix = 2
    /\ gen.m_gen_inp_mask = <<0, 1>>
    /\ Load(Slice(gen.m_gen_inp_decom[3], 0, KeyBytes)) = _mm_xor_si128(gen.m_w[1], gen.m_R)
    /\ Load(Slice(gen.m_gen_inp_decom[4], 0, KeyBytes)) = gen.m_w[1]
    /\ Load(Slice(gen.m_gen_inp_decom[1], 0, KeyBytes)) = gen.m_w[0]

\* Bytes::get_ith_bit on a byte string
BitOf(bytes, ix) == (bytes[(ix \div ByteBits) + 1] \div (2 ^ (ix % ByteBits))) % 2

\* the bit strings a and b differ at most in bit ix
SameButBit(a, b, ix) ==
    /\ Len(a) = Len(b)
    /\ \A k \in 0..(Len(a) * ByteBits - 1) : k # ix => BitOf(a, k) = BitOf(b, k)

\* the entries of W other than the one at id are as before
SameButWire(w, v, id) ==
    /\ DOMAIN w = DOMAIN v
    /\ \A j \in DOMAIN w : j # id => w[j] = v[j]

Inc(tag, kind) == IF tag = kind THEN 1 ELSE 0

\* C19: frame of one gate step.  Every gen_next_gate / com_next_gate /
\* evl_next_gate call that returns writes the entry of W at the gate's id
\* and no other, advances the gate index by exactly 1, advances gen_inp_ix
\* only at a GEN_INP gate and evl_inp_ix only at an EVL_INP gate; on the
\* evaluator it changes at most bit evl_out_ix of evl_out and then advances
\* evl_out_ix, only at an EVL_OUT gate, and likewise gen_out and gen_out_ix
\* only at a GEN_OUT gate; so after the last gate each counter equals the
\* number of gates of its kind.
C19_Frame ==
    [][/\ ((GenNextGate \/ ComNextGate) /\ gen'.state # "aborted") =>
            LET gate == Cct[gen.m_gate_ix + 1]
            IN  /\ SameButWire(gen'.m_w, gen.m_w, gate.m_idx)
                /\ gen'.m_w[gate.m_idx] # Unset
                /\ gen'.m_gate_ix = gen.m_gate_ix + 1
                /\ gen'.m_gen_inp_ix = gen.m_gen_inp_ix + Inc(gate.m_tag, "GEN_INP")
                /\ gen'.m_evl_inp_ix = gen.m_evl_inp_ix + Inc(gate.m_tag, "EVL_INP")
                /\ gen'.m_gate_ix = NumGates =>
                      /\ gen'.m_gen_inp_ix = gen_inp_cnt(Cct)
                      /\ gen'.m_evl_inp_ix = evl_inp_cnt(Cct)
       /\ (EvlNextGate /\ evl'.state # "crashed") =>
            LET gate == Cct[evl.m_gate_ix + 1]
            IN  /\ SameButWire(evl'.m_w, evl.m_w, gate.m_idx)
                /\ evl'.m_w[gate.m_idx] # Unset
                /\ evl'.m_gate_ix = evl.m_gate_ix + 1
                /\ evl'.m_gen_inp_ix = evl.m_gen_inp_ix + Inc(gate.m_tag, "GEN_INP")
                /\ evl'.m_evl_inp_ix = evl.m_evl_inp_ix + Inc(gate.m_tag, "EVL_INP")
                /\ evl'.m_evl_out_ix = evl.m_evl_out_ix + Inc(gate.m_tag, "EVL_OUT")
                /\ evl'.m_gen_out_ix = evl.m_gen_out_ix + Inc(gate.m_tag, "GEN_OUT")
                /\ IF gate.m_tag = "EVL_OUT"
                   THEN SameButBit(evl'.m_evl_out, evl.m_evl_out, evl.m_evl_out_ix)
                   ELSE evl'.m_evl_out = evl.m_evl_out
                /\ IF gate.m_tag = "GEN_OUT"
                   THEN SameButBit(evl'.m_gen_out, evl.m_gen_out, evl.m_gen_out_ix)
                   ELSE evl'.m_gen_out = evl.m_gen_out
                /\ evl'.m_gate_ix = NumGates =>
                      /\ evl'.m_gen_inp_ix = gen_inp_cnt(Cct)
                      /\ evl'.m_evl_inp_ix = evl_inp_cnt(Cct)
                      /\ evl'.m_evl_out_ix = evl_out_cnt(Cct)
                      /\ evl'.m_gen_out_ix = gen_out_cnt(Cct)]_vars

\* on a whole stream the evaluator has passed every gate of the circuit with
\* two outputs of each kind, on inputs 1 and 0: bit 1 of evl_out is set next
\* to a clear bit 0, both bits of gen_out are set
C19_Witness ==
    /\ Len(Cct) = 6 /\ gen_out_cnt(Cct) = 2 /\ evl_out_cnt(Cct) = 2
    /\ env.cut = 0 /\ env.ot_keys = OtKeys(1)
    /\ env.gen_in = <<1>> /\ env.evl_in = <<0>>
    /\ evl.state = "evl"
    /\ evl.m_gate_ix = NumGates
    /\ evl.m_evl_out_ix = 2 /\ evl.m_gen_out_ix = 2
    /\ BitOf(evl.m_evl_out, 1) = 1 /\ BitOf(evl.m_evl_out, 0) = 0
    /\ BitOf(evl.m_gen_out, 0) = 1 /\ BitOf(evl.m_gen_out, 1) = 1

\* the bytes a step of the generator added to the stream
NewlyEmitted == SubSeq(net'.emitted, Len(net.emitted) + 1, Len(net'.emitted))

\* one update_hash call with argument data took the engine from e to f: the
\* folded bytes grew by data and by nothing else, the absorbed bytes stay a
\* prefix, and under RAND_SEED a spill buffer pushed above the threshold is
\* empty afterwards (and is the old buffer followed by data otherwise)
Absorbed(e, f, data) ==
    /\ Folded(f) = Folded(e) \o data
    /\ SubSeq(f.m_hash, 1, Len(e.m_hash)) = e.m_hash
    /\ IF env.RAND_SEED /\ Len(e.m_bufr) + Len(data) > CIRCUIT_HASH_BUFFER_SIZE
       THEN f.m_bufr = <<>>
       ELSE f.m_bufr = e.m_bufr \o data /\ f.m_hash = e.m_hash

\* C20: RunningHash stream preservation.  com_init and evl_init start with
\* nothing folded; every update_hash call, the one of com_next_gate on the
\* gate's bytes and the one of evl_next_gate on its buffer, appends its
\* argument to the absorbed bytes followed by the spill buffer, dropping,
\* duplicating or reordering nothing; under RAND_SEED the spill buffer is
\* empty right after a call that pushed it above the threshold; and
\* com_next_gate leaves m_o_bufr empty, so the committing generator has
\* folded every emitted byte exactly once.
C20_StreamPreserved ==
    [][/\ ComInit => Folded(gen') = <<>>
       /\ EvlInit => Folded(evl') = <<>>
       /\ ComNextGate =>
            /\ Absorbed(gen, gen', NewlyEmitted)
            /\ gen'.m_o_bufr = <<>>
            /\ Folded(gen') = net'.emitted
       /\ (EvlNextGate /\ evl'.state # "crashed") =>
            Absorbed(evl, evl', evl.m_i_bufr)]_vars

\* under RAND_SEED a committing generator has garbled every gate: it has
\* absorbed more than one threshold of bytes, spilled bytes after that, and
\* what it folded is the emitted stream
C20_Witness ==
    /\ env.RAND_SEED
    /\ gen.state = "com"
    /\ gen.m_gate_ix = NumGates
    /\ Len(gen.m_hash) > CIRCUIT_HASH_BUFFER_SIZE
    /\ Len(gen.m_bufr) > 0
    /\ gen.m_o_bufr = <<>>
    /\ gen.m_hash \o gen.m_bufr = net.emitted

====
